---- MODULE Spec2Model ----
(***************************************************************************)
(* ForensIQ server: the MITRE ATT&CK technique search paths                *)
(* (ChromaDBService.search_techniques,                                     *)
(* AWSBedrockService.search_mitre_techniques,                              *)
(* BedrockService.retrieve_and_summarize), corpus initialisation and the   *)
(* two analyze_logs pipelines (routers/analysis.py, routers/analyzis.py).  *)
(* Further parts, each with a specification of its own: the extraction of  *)
(* indicators, the monitoring loops of the command-line tool, the session  *)
(* endpoints, the AI agent, the load of the corpus, the entry points of    *)
(* the search, the exit codes of the tool and send_logs_with_retry.        *)
(*                                                                         *)
(* Numbers.  Python floats are modelled in fixed point: a distance is an   *)
(* integer number of tenths (DistOne = 1.0), a relevance score an integer  *)
(* number of twentieths (ScoreOne = 1.0), so that 1 - d/2 and 1 - d are    *)
(* exact.                                                                  *)
(* Text.  A Python string is a sequence of tokens; " " is a whitespace     *)
(* token.  str.strip, str.startswith and truthiness are computed on them.  *)
(***************************************************************************)
EXTENDS Integers, Sequences, FiniteSets, TLC

\* ------------------------------------------------------------------ bounds
\* number of attack-pattern records in the source corpus
MaxCorpus == 3
\* number of chunks the knowledge base returns to one retrieve call
MaxChunks == 3

\* ------------------------------------------------------- program constants
\* the distance 1.0, in tenths
DistOne == 10
\* the score 1.0, in twentieths
ScoreOne == 20
\* bedrock_service.py:154, the chunk score threshold 0.3, in twentieths
MinChunkScore == 6
\* chromadb_service.py:166, the cap on n_results
MaxQueryResults == 20
\* core/config.py:23, Config.MAX_RESULTS
DefaultMaxResults == 5

Min(a, b) == IF a <= b THEN a ELSE b
Max(a, b) == IF a >= b THEN a ELSE b

\* ------------------------------------------------------------ input domains
\* STIX ids of the corpus records (collection ids)
Entries == 1..MaxCorpus
\* external ids found in the records' metadata
TechIds == {"T1059", "T1078"}
\* distances the index can report, in tenths: below 0, 0, 0.1, 0.4, 2.0
\* and above 2
Distances == {-5, 0, 1, 4, 20, 25}
\* scores the knowledge base can report, in twentieths: 0.2, 0.3, 0.6 and
\* 1.2
Scores == {4, 6, 12, 24}
\* n_results values a caller of the search functions passes
NResults == {0, 1, 2, MaxQueryResults + 1}

\* ------------------------------------------------------------------- text
Whitespace == " "
ErrorSummaryPrefix == "Error generating summary:"
EmptySummaryPlaceholder ==
    <<"Unable to generate summary - empty response from AI service">>
ErrorEnhancePrefix == "Error enhancing analysis:"
EmptyEnhancePlaceholder ==
    <<"Unable to enhance analysis - empty response from AI service">>
BedrockEmptyEnhancePlaceholder ==
    <<"Unable to enhance analysis - empty response from model">>
BedrockErrorPrefix == "Error during analysis:"
NoSummaryGenerated == <<"No summary generated">>

RECURSIVE LStrip(_)
LStrip(t) == IF t # <<>> /\ Head(t) = Whitespace THEN LStrip(Tail(t)) ELSE t

RECURSIVE RStrip(_)
RStrip(t) ==
    IF t # <<>> /\ t[Len(t)] = Whitespace
    THEN RStrip(SubSeq(t, 1, Len(t) - 1))
    ELSE t

Strip(t) == RStrip(LStrip(t))

StartsWith(t, prefix) == t # <<>> /\ t[1] = prefix

\* ------------------------------------------------------------------ state
VARIABLES
    corpus,        \* technique_id of every record of the STIX file
    corpus_ok,     \* whether the STIX file can be read and parsed
    collection,    \* ids held by the ChromaDB collection (persistent)
    server,        \* lifespan: "starting", "up" or "failed"
    s_op,          \* the search function called last
    s_backend,     \* what the backend answered to it
    s_out,         \* what the search function gave its caller
    pc,            \* position of the analyze_logs run in progress
    request,       \* its LogAnalysisRequest and the router that serves it
    summary,       \* its summary text
    techniques_data,   \* its technique list, as the search returned it
    enhanced_analysis, \* None, or the text the enhancement returned
    response,      \* None, or the LogAnalysisResponse returned
    http_error,    \* None, or the status of the HTTPException raised
    calls,         \* the external calls of the run, in order
    extracted_iocs,    \* the indicators the run extracted from its logs
    ioc_op,        \* the extraction function called last
    log_message,   \* the text it was called with
    found_iocs,    \* what extract_iocs returned
    pipeline_result,   \* what run_analysis_pipeline returned
    m_pc,          \* the monitoring loop: "idle", "cycle", "reading",
                   \* "analyzing",
                   \* "sleeping" or "ended"
    m_mode,        \* "file" (monitor_logs) or "dynamic"
    configured_interval,   \* the interval of the monitoring profile
    base_interval, \* the loop's base_interval
    file_exists,   \* whether the monitored log file exists
    file_size,     \* its size in bytes
    last_position, \* the loop's checkpoint
    config_position,   \* self.config['last_file_position']
    saved_position,    \* last_file_position in the config file on disk
    consecutive_errors,
    cycle,         \* what the cycle in progress (or the last one) did
    sleep_time,    \* None, or the duration of the sleep in progress
    stop_reason,   \* why the loop ended
    run_session_id,    \* None, or the id of the run's monitoring session
    stop_requests, \* stop requests the run has sent for its session
    analysed_upto, \* end of the part of the file the run has analysed
    sessions,      \* status of every document of monitoring_sessions
    sess_last,     \* the last request to the session endpoints
    session_owner, \* username of every document of monitoring_sessions
    learned_patterns,  \* the AI agent's store: signature -> count
    agent_call,    \* the last call to the AI agent
    sched_bounds,  \* base, least and greatest interval of the scheduler
    schedule,      \* the interval it gave for every severity level
    stix_objects,   \* the objects of the STIX file
    stix_readable,   \* whether the file can be opened and parsed
    init_call,  \* what the last initialize_database call did
    entry_call,  \* the last request to a search entry point
    cli_run,  \* the last run of the command-line tool
    now,   \* seconds on the clock of the tool (datetime.utcnow)
    cache,   \* the files of analysis_cache, by log hash
    retry   \* the call of send_logs_with_retry under way

searchVars == <<s_op, s_backend, s_out>>
runVars == <<pc, request, summary, techniques_data, enhanced_analysis,
             response, http_error, calls, extracted_iocs>>
corpusVars == <<corpus, corpus_ok, collection, server>>
iocVars == <<ioc_op, log_message, found_iocs, pipeline_result>>
monitorVars == <<m_pc, m_mode, configured_interval, base_interval,
                 file_exists, file_size, last_position, config_position,
                 saved_position, consecutive_errors, cycle, sleep_time,
                 stop_reason, run_session_id, stop_requests,
                 analysed_upto>>
sessionVars == <<sessions, sess_last, session_owner>>
agentVars == <<learned_patterns, agent_call, sched_bounds, schedule>>
loadVars == <<stix_objects, stix_readable, init_call>>
entryVars == <<entry_call>>
mainVars == <<cli_run>>
retryVars == <<now, cache, retry>>
\* the state the server's requests leave alone
notServerVars == <<iocVars, monitorVars, sessionVars, agentVars, loadVars,
                    entryVars, mainVars, retryVars>>

\* Optional[int]: None is the empty sequence, a value the one-element one
None == <<>>
Some(x) == <<x>>

\* ------------------------------------------------- the index (collaborator)
\* sequences of n distinct ids of the collection
DistinctEntrySeqs(coll, n) ==
    {e \in [1..n -> coll] : \A i, j \in 1..n : i # j => e[i] # e[j]}

\* sequences of n distances in the order the index reports them: nearest
\* first
AscendingDistanceSeqs(n) ==
    {d \in [1..n -> Distances] : \A i \in 1..(n - 1) : d[i] <= d[i + 1]}

\* collection.query(n_results = k): raises for k < 1 and when the backend is
\* unavailable; otherwise the min(k, count) nearest records with their
\* metadata, with the 'distances' column or without it (the distance field
\* of a hit is then unused and left 0)
QueryOutcomes(coll, meta, k) ==
    {[raised |-> TRUE, has_distances |-> FALSE, hits |-> <<>>]}
    \cup
    (IF k < 1 THEN {} ELSE
        LET n == Min(k, Cardinality(coll)) IN
        {[raised |-> FALSE, has_distances |-> TRUE,
          hits |-> [i \in 1..n |->
                      [entry |-> e[i], technique_id |-> meta[e[i]],
                       distance |-> d[i]]]] :
            e \in DistinctEntrySeqs(coll, n),
            d \in AscendingDistanceSeqs(n)}
        \cup
        {[raised |-> FALSE, has_distances |-> FALSE,
          hits |-> [i \in 1..n |->
                      [entry |-> e[i], technique_id |-> meta[e[i]],
                       distance |-> 0]]] :
            e \in DistinctEntrySeqs(coll, n)})

\* ----------------------------------------- ChromaDBService.search_techniques
\* variant: the distance is not clamped before it is normalised
NormalizeDistance_NoClamp(has_distance, distance) ==
    IF has_distance
    THEN ScoreOne - ((distance * ScoreOne) \div (2 * DistOne))
    ELSE 0

\* chromadb_service.py:178-183: distance -> relevance score
NormalizeDistance(has_distance, distance) ==
    IF has_distance
    THEN LET clamped_distance == Max(0, Min(distance, 2 * DistOne))
         IN  ScoreOne - ((clamped_distance * ScoreOne) \div (2 * DistOne))
    ELSE 0

\* chromadb_service.py:169-194: one result entry per hit, in the hits' order
ChromaTechniques(results) ==
    [i \in 1..Len(results.hits) |->
        [technique_id |-> results.hits[i].technique_id,
         relevance_score |->
             NormalizeDistance(results.has_distances,
                               results.hits[i].distance),
         document |-> results.hits[i].entry]]

\* chromadb_service.py:159-201: the try/except around query and conversion
SearchTechniquesOutcome(results) ==
    IF results.raised
    THEN [raised |-> FALSE, techniques |-> <<>>]
    ELSE [raised |-> FALSE, techniques |-> ChromaTechniques(results)]

\* chromadb_service.py:160-167: the k the index is asked for
ChromaRequestedK(n_results) ==
    LET n == IF n_results = None THEN DefaultMaxResults ELSE n_results[1]
    IN  Min(n, MaxQueryResults)

\* ------------------------------- AWSBedrockService.search_mitre_techniques
\* aws_bedrock_service.py:131-135
AwsRelevance(has_distance, distance) ==
    IF has_distance
    THEN Max(0, ScoreOne - ((distance * ScoreOne) \div DistOne))
    ELSE 0

\* list.sort(key = relevance_score, reverse = True): stable, descending
RECURSIVE InsertDesc(_, _)
InsertDesc(sorted, t) ==
    IF sorted = <<>> THEN <<t>>
    ELSE IF Head(sorted).relevance_score >= t.relevance_score
         THEN <<Head(sorted)>> \o InsertDesc(Tail(sorted), t)
         ELSE <<t>> \o sorted

RECURSIVE SortByRelevanceDesc(_)
SortByRelevanceDesc(ts) ==
    IF ts = <<>> THEN <<>>
    ELSE InsertDesc(SortByRelevanceDesc(SubSeq(ts, 1, Len(ts) - 1)),
                    ts[Len(ts)])

\* aws_bedrock_service.py:124-150
AwsTechniques(results) ==
    SortByRelevanceDesc(
        [i \in 1..Len(results.hits) |->
            [technique_id |-> results.hits[i].technique_id,
             relevance_score |->
                 AwsRelevance(results.has_distances,
                              results.hits[i].distance),
             document |-> results.hits[i].entry]])

\* aws_bedrock_service.py:45-100: the query embedding; when the embedding
\* call raises, get_embeddings answers with the zero vector
GetSingleEmbedding(embed_raises) ==
    IF embed_raises THEN "zero_vector" ELSE "embedding"

\* aws_bedrock_service.py:114-157
SearchMitreTechniquesOutcome(results) ==
    IF results.raised
    THEN [raised |-> FALSE, techniques |-> <<>>]
    ELSE [raised |-> FALSE, techniques |-> AwsTechniques(results)]

\* -------------------------------------- BedrockService.retrieve_and_summarize
UnknownId == "Unknown"

\* bedrock_agent_runtime.retrieve(numberOfResults = k): raises for k < 1 and
\* when the service is unavailable; otherwise up to k chunks, best score
\* first.  A chunk is reduced to its score and to the technique id
\* _extract_json_technique_info finds in its text ('Unknown' when none).
DescendingScoreSeqs(n) ==
    {sc \in [1..n -> Scores] : \A i \in 1..(n - 1) : sc[i] >= sc[i + 1]}

RetrieveOutcomes(k) ==
    {[raised |-> TRUE, chunks |-> <<>>]}
    \cup
    (IF k < 1 THEN {} ELSE
        UNION {
            {[raised |-> FALSE,
              chunks |-> [i \in 1..n |->
                            [technique_id |-> t[i], score |-> sc[i]]]] :
                t \in [1..n -> TechIds \cup {UnknownId}],
                sc \in DescendingScoreSeqs(n)} :
            n \in 0..Min(k, MaxChunks)})

\* texts a generation call can answer with
ModelTexts == {<<>>, <<Whitespace>>, <<"Suspicious", "activity">>}

\* model.generate_content / bedrock_runtime.invoke_model: raises, answers
\* without a text field, or answers with a text
GenerateOutcomes ==
    {[raised |-> TRUE, has_text |-> FALSE, text |-> <<>>],
     [raised |-> FALSE, has_text |-> FALSE, text |-> <<>>]}
    \cup
    {[raised |-> FALSE, has_text |-> TRUE, text |-> t] : t \in ModelTexts}

\* variant: a new technique is put at the front of the list
RECURSIVE BedrockMatchLoop_Prepend(_, _, _)
BedrockMatchLoop_Prepend(chunks, matched_techniques, processed_ids) ==
    IF chunks = <<>> THEN matched_techniques
    ELSE LET chunk == Head(chunks) IN
         IF chunk.score < MinChunkScore
         THEN BedrockMatchLoop_Prepend(Tail(chunks), matched_techniques,
                                       processed_ids)
         ELSE IF chunk.technique_id # UnknownId
                 /\ chunk.technique_id \notin processed_ids
         THEN BedrockMatchLoop_Prepend(
                  Tail(chunks),
                  <<[technique_id |-> chunk.technique_id,
                     relevance_score |-> chunk.score]>>
                      \o matched_techniques,
                  processed_ids \cup {chunk.technique_id})
         ELSE BedrockMatchLoop_Prepend(Tail(chunks), matched_techniques,
                                       processed_ids)

\* bedrock_service.py:149-173: threshold, first-seen de-duplication
RECURSIVE BedrockMatchLoop(_, _, _)
BedrockMatchLoop(chunks, matched_techniques, processed_ids) ==
    IF chunks = <<>> THEN matched_techniques
    ELSE LET chunk == Head(chunks) IN
         IF chunk.score < MinChunkScore
         THEN BedrockMatchLoop(Tail(chunks), matched_techniques,
                               processed_ids)
         ELSE IF chunk.technique_id # UnknownId
                 /\ chunk.technique_id \notin processed_ids
         THEN BedrockMatchLoop(
                  Tail(chunks),
                  Append(matched_techniques,
                         [technique_id |-> chunk.technique_id,
                          relevance_score |-> chunk.score]),
                  processed_ids \cup {chunk.technique_id})
         ELSE BedrockMatchLoop(Tail(chunks), matched_techniques,
                               processed_ids)

BedrockMatchedTechniques(chunks) == BedrockMatchLoop(chunks, <<>>, {})

\* bedrock_service.py:215-227: the summary text, or the error result
BedrockSummary(gen) ==
    Strip(IF gen.has_text THEN gen.text ELSE NoSummaryGenerated)

BedrockErrorResult ==
    [summary |-> <<BedrockErrorPrefix, "exception">>,
     matched_techniques |-> <<>>]

\* bedrock_service.py:128-227
RetrieveAndSummarizeOutcome(retr, gen) ==
    IF retr.raised \/ gen.raised
    THEN BedrockErrorResult
    ELSE [summary |-> BedrockSummary(gen),
          matched_techniques |-> BedrockMatchedTechniques(retr.chunks)]

\* ----------------------------------------- ChromaDBService.initialize_database
\* chromadb_service.py:19-52: the techniques of the STIX file, [] on error
LoadAttackData == IF corpus_ok THEN corpus ELSE <<>>

\* variant: a load that yields no technique, or a backend error, is
\* reported as a failure
InitializeDatabaseOutcome_FailsOnEmpty(count_raises, add_raises) ==
    IF count_raises
    THEN [collection |-> collection, returned |-> FALSE]
    ELSE IF Cardinality(collection) > 0
    THEN [collection |-> collection, returned |-> TRUE]
    ELSE IF corpus_ok /\ corpus # <<>> /\ ~add_raises
    THEN [collection |-> DOMAIN corpus, returned |-> TRUE]
    ELSE [collection |-> collection, returned |-> FALSE]

\* chromadb_service.py:96-146: the collection afterwards and the value
\* returned
InitializeDatabaseOutcome(count_raises, add_raises) ==
    IF count_raises
    THEN [collection |-> collection, returned |-> TRUE]
    ELSE IF Cardinality(collection) > 0
    THEN [collection |-> collection, returned |-> TRUE]
    ELSE LET techniques == LoadAttackData IN
         IF techniques = <<>>
         THEN [collection |-> collection, returned |-> TRUE]
         ELSE IF add_raises
         THEN [collection |-> collection, returned |-> TRUE]
         ELSE [collection |-> DOMAIN techniques, returned |-> TRUE]

\* main.py:31-42: startup initialises the database and fails when that
\* reports False
Lifespan ==
    /\ server = "starting"
    /\ \E count_raises, add_raises \in BOOLEAN :
          LET out == InitializeDatabaseOutcome(count_raises, add_raises) IN
          /\ collection' = out.collection
          /\ server' = IF out.returned THEN "up" ELSE "failed"
    /\ UNCHANGED <<corpus, corpus_ok>>

\* the process is stopped and started again; the collection is persistent
Restart ==
    /\ server \in {"up", "failed"}
    /\ s_op = "none"
    /\ pc = "idle"
    /\ server' = "starting"
    /\ UNCHANGED <<corpus, corpus_ok, collection>>

\* the STIX file holds up to MaxCorpus attack-patterns, or cannot be read
InitCorpus ==
    /\ \/ /\ corpus_ok = TRUE
          /\ corpus \in UNION {[1..n -> TechIds] : n \in 0..MaxCorpus}
       \/ /\ corpus_ok = FALSE
          /\ corpus = <<>>
    /\ collection = {}
    /\ server = "starting"

\* ------------------------------------------------------ the search endpoints
NoSearch == [raised |-> FALSE, techniques |-> <<>>]

InitSearch ==
    /\ s_op = "none"
    /\ s_backend = [raised |-> FALSE]
    /\ s_out = NoSearch

\* routers/analysis.py:133-158 -> ChromaDBService.search_techniques
SearchTechniques ==
    /\ server = "up"
    /\ s_op = "none"
    /\ pc = "idle"
    /\ \E n_results \in {None} \cup {Some(n) : n \in NResults} :
       \E results \in QueryOutcomes(collection, corpus,
                                    ChromaRequestedK(n_results)) :
          /\ s_op' = "chroma"
          /\ s_backend' = [raised |-> results.raised,
                           has_distances |-> results.has_distances,
                           hits |-> results.hits,
                           query_embedding |-> "text"]
          /\ s_out' = SearchTechniquesOutcome(results)
    /\ UNCHANGED corpusVars

\* aws_bedrock_service.py:102-157, called by the MITRE search endpoints
SearchMitreTechniques ==
    /\ server = "up"
    /\ s_op = "none"
    /\ pc = "idle"
    /\ \E n_results \in NResults, embed_raises \in BOOLEAN :
       \E results \in QueryOutcomes(collection, corpus, n_results) :
          /\ s_op' = "aws"
          /\ s_backend' = [raised |-> results.raised,
                           has_distances |-> results.has_distances,
                           hits |-> results.hits,
                           query_embedding |->
                               GetSingleEmbedding(embed_raises)]
          /\ s_out' = SearchMitreTechniquesOutcome(results)
    /\ UNCHANGED corpusVars

\* BedrockService.retrieve_and_summarize, called with the knowledge base
RetrieveAndSummarize ==
    /\ server = "up"
    /\ s_op = "none"
    /\ pc = "idle"
    /\ \E n_results \in NResults :
       \E retr \in RetrieveOutcomes(n_results), gen \in GenerateOutcomes :
          LET out == RetrieveAndSummarizeOutcome(retr, gen) IN
          /\ s_op' = "bedrock"
          /\ s_backend' = [raised |-> retr.raised \/ gen.raised,
                           chunks |-> retr.chunks]
          /\ s_out' = [raised |-> FALSE,
                       techniques |-> out.matched_techniques,
                       summary |-> out.summary]
    /\ UNCHANGED corpusVars

\* --------------------------------------------------------- GeminiService
\* gemini_service.py:26-61
SummarizeLogs(gen) ==
    IF gen.raised
    THEN <<ErrorSummaryPrefix, "exception">>
    ELSE IF gen.has_text /\ gen.text # <<>>
    THEN Strip(gen.text)
    ELSE EmptySummaryPlaceholder

\* gemini_service.py:74-110
EnhanceThreatAnalysis(gen) ==
    IF gen.raised
    THEN <<ErrorEnhancePrefix, "exception">>
    ELSE IF gen.has_text /\ gen.text # <<>>
    THEN Strip(gen.text)
    ELSE EmptyEnhancePlaceholder

\* bedrock_service.py:241-291
BedrockEnhanceThreatAnalysis(gen) ==
    IF gen.raised
    THEN <<ErrorEnhancePrefix, "exception">>
    ELSE IF gen.has_text /\ gen.text # <<>>
    THEN Strip(gen.text)
    ELSE BedrockEmptyEnhancePlaceholder

\* ----------------------------------------------------------- IOC extraction
\* Log text is a sequence of words.  The words a log can hold, named by what
\* they are: an address, a host name, two URLs, an MD5 and a SHA-256 digest,
\* and a plain word.
Ip == "203.0.113.5"
Host == "evil.example.com"
HostUrl == "http://evil.example.com/a"
IpUrl == "http://203.0.113.5/a"
Md5Hex == "d41d8cd98f00b204e9800998ecf8427e"
Sha256Hex ==
    "e3b0c44298fc1c149afbf4c8996fb92427ae41e4649b934ca495991b7852b855"
Plain == "failed"
LogWords == {Ip, Host, HostUrl, IpUrl, Md5Hex, Sha256Hex, Plain}

\* services/ioc_extractor.py:4-10, the pattern classes in dictionary order
IocTypes == <<"ipv4", "domain", "url", "md5", "sha256">>

\* re.findall(IOC_PATTERNS[ioc_type], word): the matches of one pattern in
\* one word, leftmost first.  The address pattern also matches inside a URL,
\* and so does the domain pattern; a digest matches only at its own length.
FindAllInWord(ioc_type, word) ==
    CASE ioc_type = "ipv4" ->
            IF word \in {Ip, IpUrl} THEN <<Ip>> ELSE <<>>
      [] ioc_type = "domain" ->
            IF word \in {Host, HostUrl} THEN <<Host>> ELSE <<>>
      [] ioc_type = "url" ->
            IF word \in {HostUrl, IpUrl} THEN <<word>> ELSE <<>>
      [] ioc_type = "md5" ->
            IF word = Md5Hex THEN <<word>> ELSE <<>>
      [] ioc_type = "sha256" ->
            IF word = Sha256Hex THEN <<word>> ELSE <<>>

\* re.findall(pattern, log_message), ioc_extractor.py:15
RECURSIVE FindAll(_, _)
FindAll(ioc_type, text) ==
    IF text = <<>> THEN <<>>
    ELSE FindAllInWord(ioc_type, Head(text)) \o FindAll(ioc_type, Tail(text))

\* variant: every match is appended, seen or not
RECURSIVE AppendUnseen_NoSeenCheck(_, _, _)
AppendUnseen_NoSeenCheck(acc, ioc_type, matches) ==
    IF matches = <<>> THEN acc
    ELSE AppendUnseen_NoSeenCheck(
             [found_iocs |-> Append(acc.found_iocs,
                                    [type |-> ioc_type,
                                     value |-> Head(matches)]),
              seen_iocs |-> acc.seen_iocs \cup {Head(matches)}],
             ioc_type, Tail(matches))

\* ioc_extractor.py:16-20, the loop over the matches of one class
RECURSIVE AppendUnseen(_, _, _)
AppendUnseen(acc, ioc_type, matches) ==
    IF matches = <<>> THEN acc
    ELSE IF Head(matches) \notin acc.seen_iocs
    THEN AppendUnseen(
             [found_iocs |-> Append(acc.found_iocs,
                                    [type |-> ioc_type,
                                     value |-> Head(matches)]),
              seen_iocs |-> acc.seen_iocs \cup {Head(matches)}],
             ioc_type, Tail(matches))
    ELSE AppendUnseen(acc, ioc_type, Tail(matches))

\* ioc_extractor.py:14-15, the loop over the classes from the k-th on
RECURSIVE ExtractFrom(_, _, _)
ExtractFrom(k, acc, text) ==
    IF k > Len(IocTypes) THEN acc
    ELSE ExtractFrom(k + 1,
                     AppendUnseen(acc, IocTypes[k], FindAll(IocTypes[k], text)),
                     text)

\* ioc_extractor.py:11-21
extract_iocs(text) ==
    ExtractFrom(1, [found_iocs |-> <<>>, seen_iocs |-> {}], text).found_iocs

\* services/data_prepping.py:9-26: lower case, punctuation other than
\* "-", "_" and ":" removed, whitespace normalised
CleanWord(word) ==
    CASE word = Ip -> "20301135"
      [] word = Host -> "evilexamplecom"
      [] word = HostUrl -> "http:evilexamplecoma"
      [] word = IpUrl -> "http:20301135a"
      [] OTHER -> word

clean_text(text) == [i \in 1..Len(text) |-> CleanWord(text[i])]

\* data_prepping.py:50-56, a line the log pattern does not parse
process_log(log_line) ==
    [raw_message |-> log_line,
     cleaned_message_for_ai |-> clean_text(log_line)]

\* core/orchestrator.py:8-36; analysis_result is what get_bedrock_analysis
\* returned, None when it failed (services/aiclient.py:51-53)
run_analysis_pipeline(processed_log, analysis_result) ==
    IF processed_log.cleaned_message_for_ai = <<>>
    THEN [error |-> "Processed log is missing a message field."]
    ELSE IF analysis_result = None
    THEN [error |-> "Failed to get analysis from Bedrock."]
    ELSE [raw_log |-> processed_log.raw_message,
          ai_summary |-> analysis_result[1],
          iocs |-> extract_iocs(processed_log.raw_message)]

\* ------------------------------------------------------------ analyze_logs
\* the logs of a request: a line that names one address twice
RawLogs == <<Plain, Ip, Ip>>

\* model/logs_model.py:5-9: enhance_with_ai, and max_results None or 1..20
Requests ==
    [route : {"v1", "v2"},
     logs : {RawLogs},
     enhance_with_ai : BOOLEAN,
     max_results : {None, Some(1), Some(MaxQueryResults)}]

NoRequest ==
    [route |-> "none", logs |-> <<>>, enhance_with_ai |-> FALSE,
     max_results |-> None]

\* model/logs_model.py:18: relevance_score has ge=0, le=1
ValidAttackTechnique(tech) ==
    tech.relevance_score >= 0 /\ tech.relevance_score <= ScoreOne

\* routers/analysis.py:79-89, routers/analyzis.py:65-75: the conversion to
\* AttackTechnique models raises when one of them does not validate
ConversionRaises(techs) ==
    \E i \in 1..Len(techs) : ~ValidAttackTechnique(techs[i])

\* variant: the gate looks at the caller's flag only
EnhancementRequested_FlagOnly(req, matched_techniques) ==
    req.enhance_with_ai

\* routers/analysis.py:93, routers/analyzis.py:79
EnhancementRequested(req, matched_techniques) ==
    req.enhance_with_ai /\ matched_techniques # <<>>

\* routers/analysis.py:56-69: the summary is rejected
SummaryRejected(text) ==
    text = <<>> \/ StartsWith(text, ErrorSummaryPrefix)

Report(text, techs, enhanced) ==
    [summary |-> text, matched_techniques |-> techs,
     enhanced_analysis |-> enhanced]

\* model/logs_model.py:20-26, the fields of the response model
LogAnalysisResponseFields ==
    {"summary", "matched_techniques", "enhanced_analysis"}

\* the model is built from keyword arguments; one that names no field of
\* the model is ignored
LogAnalysisResponse(kwargs) ==
    [f \in DOMAIN kwargs \cap LogAnalysisResponseFields |-> kwargs[f]]

\* routers/analyzis.py:89-95
ReportV2(text, techs, enhanced, iocs) ==
    LogAnalysisResponse([summary |-> text, matched_techniques |-> techs,
                         enhanced_analysis |-> enhanced,
                         extracted_iocs |-> iocs])

InitRun ==
    /\ pc = "idle"
    /\ request = NoRequest
    /\ summary = <<>>
    /\ techniques_data = <<>>
    /\ enhanced_analysis = None
    /\ response = None
    /\ http_error = None
    /\ calls = <<>>
    /\ extracted_iocs = <<>>

\* a request arrives
Receive ==
    /\ server = "up"
    /\ s_op = "none"
    /\ pc = "idle"
    /\ \E req \in Requests :
          /\ request' = req
          /\ pc' = IF req.route = "v1" THEN "summarize" ELSE "retrieve"
    /\ summary' = <<>>
    /\ techniques_data' = <<>>
    /\ enhanced_analysis' = None
    /\ response' = None
    /\ http_error' = None
    /\ calls' = <<>>
    /\ extracted_iocs' = <<>>
    /\ UNCHANGED corpusVars
    /\ UNCHANGED searchVars
    /\ UNCHANGED notServerVars

Fail500 ==
    /\ pc' = "failed"
    /\ http_error' = Some(500)
    /\ response' = None

\* routers/analysis.py:52-69
Summarize ==
    /\ pc = "summarize"
    /\ \E gen \in GenerateOutcomes :
          LET text == SummarizeLogs(gen) IN
          /\ summary' = text
          /\ calls' = Append(calls, [op |-> "summarize", arg |-> request.logs,
                                     failed |-> gen.raised,
                                     text |-> gen.text])
          /\ IF SummaryRejected(text)
             THEN Fail500
             ELSE /\ pc' = "search"
                  /\ UNCHANGED <<response, http_error>>
    /\ UNCHANGED <<request, techniques_data, enhanced_analysis,
                   extracted_iocs>>
    /\ UNCHANGED corpusVars
    /\ UNCHANGED searchVars
    /\ UNCHANGED notServerVars

\* routers/analysis.py:71-93: the search, the conversion to AttackTechnique
\* and the enhancement gate
Search ==
    /\ pc = "search"
    /\ \E results \in QueryOutcomes(collection, corpus,
                                    ChromaRequestedK(request.max_results)) :
          LET out == SearchTechniquesOutcome(results) IN
          /\ calls' = Append(calls, [op |-> "search", arg |-> summary,
                                     failed |-> results.raised,
                                     text |-> <<>>])
          /\ IF out.raised \/ ConversionRaises(out.techniques)
             THEN /\ Fail500
                  /\ UNCHANGED techniques_data
             ELSE /\ techniques_data' = out.techniques
                  /\ pc' = IF EnhancementRequested(request, out.techniques)
                           THEN "enhance" ELSE "store"
                  /\ UNCHANGED <<response, http_error>>
    /\ UNCHANGED <<request, summary, enhanced_analysis, extracted_iocs>>
    /\ UNCHANGED corpusVars
    /\ UNCHANGED searchVars
    /\ UNCHANGED notServerVars

\* routers/analysis.py:94-97
Enhance ==
    /\ pc = "enhance"
    /\ \E gen \in GenerateOutcomes :
          /\ enhanced_analysis' = Some(EnhanceThreatAnalysis(gen))
          /\ calls' = Append(calls, [op |-> "enhance", arg |-> summary,
                                     failed |-> gen.raised,
                                     text |-> gen.text])
    /\ pc' = "store"
    /\ UNCHANGED <<request, summary, techniques_data, response, http_error,
                   extracted_iocs>>
    /\ UNCHANGED corpusVars
    /\ UNCHANGED searchVars
    /\ UNCHANGED notServerVars

\* routers/analysis.py:103-122: the response is built, stored (a storage
\* failure is logged) and returned
Store ==
    /\ pc = "store"
    /\ \E store_raises \in BOOLEAN :
          calls' = Append(calls, [op |-> "store", arg |-> summary,
                                  failed |-> store_raises, text |-> <<>>])
    /\ response' = Some(Report(summary, techniques_data, enhanced_analysis))
    /\ pc' = "done"
    /\ UNCHANGED <<request, summary, techniques_data, enhanced_analysis,
                   http_error, extracted_iocs>>
    /\ UNCHANGED corpusVars
    /\ UNCHANGED searchVars
    /\ UNCHANGED notServerVars

\* routers/analyzis.py:49-55 with bedrock_service.py:128-142: the knowledge
\* base is queried with the logs
Retrieve ==
    /\ pc = "retrieve"
    /\ \E retr \in RetrieveOutcomes(IF request.max_results = None THEN 0
                                    ELSE request.max_results[1]) :
          /\ calls' = Append(calls, [op |-> "search", arg |-> request.logs,
                                     failed |-> retr.raised, text |-> <<>>])
          /\ IF retr.raised
             THEN /\ summary' = BedrockErrorResult.summary
                  /\ techniques_data' = BedrockErrorResult.matched_techniques
                  /\ Fail500
             ELSE /\ techniques_data' = BedrockMatchedTechniques(retr.chunks)
                  /\ pc' = "summarize_v2"
                  /\ UNCHANGED <<summary, response, http_error>>
    /\ extracted_iocs' = extract_iocs(request.logs)
    /\ UNCHANGED <<request, enhanced_analysis>>
    /\ UNCHANGED corpusVars
    /\ UNCHANGED searchVars
    /\ UNCHANGED notServerVars

\* bedrock_service.py:175-227 and routers/analyzis.py:57-79: the summary,
\* the conversion to AttackTechnique and the enhancement gate; without
\* enhancement the response is returned (lines 85-95)
SummarizeV2 ==
    /\ pc = "summarize_v2"
    /\ \E gen \in GenerateOutcomes :
          LET out == IF gen.raised THEN BedrockErrorResult
                     ELSE [summary |-> BedrockSummary(gen),
                           matched_techniques |-> techniques_data] IN
          /\ calls' = Append(calls, [op |-> "summarize", arg |-> request.logs,
                                     failed |-> gen.raised,
                                     text |-> gen.text])
          /\ summary' = out.summary
          /\ techniques_data' = out.matched_techniques
          /\ IF StartsWith(out.summary, BedrockErrorPrefix)
                \/ ConversionRaises(out.matched_techniques)
             THEN /\ Fail500
                  /\ UNCHANGED enhanced_analysis
             ELSE IF EnhancementRequested(request, out.matched_techniques)
             THEN /\ pc' = "enhance_v2"
                  /\ UNCHANGED <<response, http_error, enhanced_analysis>>
             ELSE /\ pc' = "done"
                  /\ response' = Some(ReportV2(out.summary,
                                               out.matched_techniques,
                                               None, extracted_iocs))
                  /\ UNCHANGED <<http_error, enhanced_analysis>>
    /\ UNCHANGED <<request, extracted_iocs>>
    /\ UNCHANGED corpusVars
    /\ UNCHANGED searchVars
    /\ UNCHANGED notServerVars

\* routers/analyzis.py:80-95
EnhanceV2 ==
    /\ pc = "enhance_v2"
    /\ \E gen \in GenerateOutcomes :
          LET enhanced == Some(BedrockEnhanceThreatAnalysis(gen)) IN
          /\ enhanced_analysis' = enhanced
          /\ calls' = Append(calls, [op |-> "enhance", arg |-> summary,
                                     failed |-> gen.raised,
                                     text |-> gen.text])
          /\ response' = Some(ReportV2(summary, techniques_data, enhanced,
                                       extracted_iocs))
    /\ pc' = "done"
    /\ UNCHANGED <<request, summary, techniques_data, http_error,
                   extracted_iocs>>
    /\ UNCHANGED corpusVars
    /\ UNCHANGED searchVars
    /\ UNCHANGED notServerVars

\* the caller has taken the result; the next call can arrive
SearchReturns ==
    /\ s_op # "none"
    /\ s_op' = "none"
    /\ s_backend' = [raised |-> FALSE]
    /\ s_out' = NoSearch
    /\ UNCHANGED corpusVars

\* the response (or the error) is delivered; the next request can arrive
Respond ==
    /\ pc \in {"done", "failed"}
    /\ pc' = "idle"
    /\ request' = NoRequest
    /\ summary' = <<>>
    /\ techniques_data' = <<>>
    /\ enhanced_analysis' = None
    /\ response' = None
    /\ http_error' = None
    /\ calls' = <<>>
    /\ extracted_iocs' = <<>>
    /\ UNCHANGED corpusVars
    /\ UNCHANGED searchVars
    /\ UNCHANGED notServerVars

\* ------------------------------------------------- the extraction functions
\* number of words of a log text
MaxWords == 3

LogTexts == UNION {[1..n -> LogWords] : n \in 0..MaxWords}

\* what get_bedrock_analysis can return: None, or a summary
AnalysisResults == {None, Some(<<"Suspicious", "activity">>)}

InitIoc ==
    /\ ioc_op = "none"
    /\ log_message = <<>>
    /\ found_iocs = <<>>
    /\ pipeline_result = None

\* ioc_extractor.extract_iocs is called with a log text
ExtractIocs ==
    /\ ioc_op = "none"
    /\ ioc_op' = "extract_iocs"
    /\ \E text \in LogTexts :
          /\ log_message' = text
          /\ found_iocs' = extract_iocs(text)
    /\ UNCHANGED pipeline_result

\* orchestrator.run_analysis_pipeline is called with a processed log line
RunAnalysisPipeline ==
    /\ ioc_op = "none"
    /\ ioc_op' = "run_analysis_pipeline"
    /\ \E text \in LogTexts, analysis_result \in AnalysisResults :
          /\ log_message' = text
          /\ pipeline_result' =
                Some(run_analysis_pipeline(process_log(text),
                                           analysis_result))
    /\ UNCHANGED found_iocs

\* the caller has taken the result
IocReturns ==
    /\ ioc_op # "none"
    /\ ioc_op' = "none"
    /\ log_message' = <<>>
    /\ found_iocs' = <<>>
    /\ pipeline_result' = None

\* -------------------------------------------------------- adaptive scheduler
Levels == {"critical", "high", "medium", "low"}
\* the bounds the scheduler can be configured with, in seconds
MinIntervals == {4, 10, 60}
MaxIntervals == {60, 300, 3600}

Clamp(x, lo, hi) == Max(lo, Min(x, hi))

\* variant: the result is not clamped
NextInterval_NoClamp(level, base, lo, hi) ==
    CASE level = "critical" -> base \div 4
      [] level = "high" -> base \div 2
      [] level = "medium" -> base
      [] level = "low" -> (base * 3) \div 2

\* AIAgent.adaptive_schedule_analysis: critical -> base / 4, high ->
\* base / 2, medium -> base, low -> min(base * 1.5, max), clamped to
\* [min, max].  The intervals used are multiples of 4, so the divisions are
\* exact.
NextInterval(level, base, lo, hi) ==
    Clamp(CASE level = "critical" -> base \div 4
            [] level = "high" -> base \div 2
            [] level = "medium" -> base
            [] level = "low" -> Min((base * 3) \div 2, hi),
          lo, hi)

\* ------------------------------------------------------- the monitoring loops
\* cli_tool.py:1286, max_errors
MaxErrors == 5
\* cli_tool.py:1367, the cap of the backoff
MaxBackoff == 300
\* cli_tool.py:1345, 1356, the cap of the wait when nothing is new
IdleCap == 60
\* cli_tool.py:1353, the wait after a rotation
RotationPause == 5
\* cli_tool.py:859, the least sleep of start_dynamic_monitoring
SleepFloor == 10
\* size of the log file, in bytes
MaxFileSize == 3
\* the consecutive-error counter is followed up to this value
MaxCounted == 6
\* intervals a profile is set up with (--interval takes any integer)
BaseIntervals == {8, 60, 300}
\* time.time() - cycle_start, in seconds
CycleDurations == {0, 20}

RECURSIVE Pow2(_)
Pow2(n) == IF n <= 0 THEN 1 ELSE 2 * Pow2(n - 1)

\* cli_tool.py:1367
BackoffWait(base, n) == Min(base * Pow2(n - 1), MaxBackoff)

\* cli_tool.py:858-859
DynamicSleepTime(base, cycle_duration) == Max(base - cycle_duration, SleepFloor)

\* the next_interval values an analysis result of the AI agent can carry
AdaptiveIntervals(base) ==
    {NextInterval(l, base, lo, hi) :
        l \in Levels, lo \in MinIntervals, hi \in MaxIntervals}

\* variant: the file is read from its start
SeekPosition_Start(position) == 0

\* cli_tool.py:1302, f.seek(last_position)
SeekPosition(position) == position

\* what enhanced_analysis or send_logs gives analyze_logs_with_storage: None
\* (also when it raised), or a result that carries the AI agent's
\* next_interval or none
AnalysisOutcomes(base) ==
    {None, Some(None)} \cup {Some(Some(i)) : i \in AdaptiveIntervals(base)}

\* cli_tool.py:1445-1461: the result is returned whatever the storage did
AnalyzeLogsWithStorage(analysis, storage) ==
    IF analysis # None THEN analysis ELSE None

\* outcomes of the POST to /api/v1/analysis/store, cli_tool.py:1466-1493
StorageOutcomes == {"stored", "rejected", "raised", "no_token"}

\* a cycle: the branch it took, the checkpoint and the error counter it
\* started with, the offset it read from, the file size it observed, the
\* offset its read ended at, what the analysis and the storage did and
\* whether the configuration was written
NoCycle ==
    [branch |-> "none", checkpoint |-> 0, errors |-> 0, from |-> 0,
     size |-> 0, read_to |-> 0, analysis |-> "none", storage |-> "none",
     written |-> FALSE]

InitMonitor ==
    /\ m_pc = "idle"
    /\ m_mode = "file"
    /\ configured_interval = 300
    /\ base_interval = 300
    /\ file_exists = TRUE
    /\ file_size = 0
    /\ last_position = 0
    /\ config_position = 0
    /\ saved_position = 0
    /\ consecutive_errors = 0
    /\ cycle = NoCycle
    /\ sleep_time = None
    /\ stop_reason = "none"
    /\ run_session_id = None
    /\ stop_requests = 0
    /\ analysed_upto = 0

fileVars == <<file_exists, file_size, analysed_upto>>
checkpointVars == <<last_position, config_position, saved_position>>

\* variant: the session is stopped where the loop is left, too
StopMonitoringSessionCalls_AtBreak(reason) ==
    IF reason \in {"no_log_file", "no_session"} THEN 0
    ELSE IF reason \in {"file_missing", "too_many_errors"} THEN 2
    ELSE 1

\* cli_tool.py:1370-1377: the calls of _stop_monitoring_session on the way
\* out; the returns before the try statement (1270-1278) pass no finally
StopMonitoringSessionCalls(reason) ==
    IF reason \in {"no_log_file", "no_session"} THEN 0 ELSE 1

\* cli_tool.py:1411-1430, _stop_monitoring_session: one POST for a call,
\* none without a session token; monitor_logs holds a session only if it
\* had a token (1382-1384)
StopRequestsAtEnd(reason) ==
    IF m_mode = "file" /\ run_session_id # None
    THEN StopMonitoringSessionCalls(reason)
    ELSE 0

\* the loop is left: cli_tool.py:1270-1278, 1292-1294, 1362-1364, 1370-1377
MonitorEnds(reason) ==
    /\ m_pc' = "ended"
    /\ stop_reason' = reason
    /\ sleep_time' = None
    /\ stop_requests' = stop_requests + StopRequestsAtEnd(reason)

\* cli_tool.py:1358-1368, the handler of an exception raised in a cycle
MonitorError ==
    LET n == consecutive_errors + 1 IN
    /\ consecutive_errors' = n
    /\ IF n >= MaxErrors
       THEN MonitorEnds("too_many_errors")
       ELSE /\ m_pc' = "sleeping"
            /\ sleep_time' = Some(BackoffWait(base_interval, n))
            /\ UNCHANGED <<stop_reason, stop_requests>>

\* the loop sleeps and goes on
MonitorSleeps(seconds) ==
    /\ m_pc' = "sleeping"
    /\ sleep_time' = Some(seconds)
    /\ UNCHANGED <<stop_reason, stop_requests>>

\* cli_tool.py:160-170, _save_config: a failed write is logged
SaveConfig(position, write_ok) ==
    IF write_ok THEN position ELSE saved_position

\* cli_tool.py:1265-1289, monitor_logs up to its loop
MonitorStart ==
    /\ m_pc = "idle"
    /\ m_mode' = "file"
    /\ \E interval \in BaseIntervals, session_created \in BOOLEAN :
          /\ configured_interval' = interval
          /\ base_interval' = interval
          /\ IF ~file_exists
             THEN /\ MonitorEnds("no_log_file")
                  /\ run_session_id' = None
             ELSE IF ~session_created
             THEN /\ MonitorEnds("no_session")
                  /\ run_session_id' = None
             ELSE /\ m_pc' = "cycle"
                  /\ run_session_id' = Some("session")
                  /\ UNCHANGED <<sleep_time, stop_reason, stop_requests>>
    /\ last_position' = config_position
    /\ consecutive_errors' = 0
    /\ cycle' = NoCycle
    /\ analysed_upto' = 0
    /\ UNCHANGED <<config_position, saved_position>>
    /\ UNCHANGED <<file_exists, file_size>>

\* cli_tool.py:1290-1299 and 1343-1368, a cycle up to the point where it
\* opens the file, or to its sleep
MonitorCycle ==
    /\ m_pc = "cycle"
    /\ m_mode = "file"
    /\ \E raises \in BOOLEAN, write_ok \in BOOLEAN :
          LET seen == [NoCycle EXCEPT !.checkpoint = last_position,
                                      !.errors = consecutive_errors,
                                      !.from = SeekPosition(last_position),
                                      !.size = file_size] IN
          IF ~file_exists
          THEN /\ MonitorEnds("file_missing")
               /\ cycle' = [seen EXCEPT !.branch = "missing"]
               /\ UNCHANGED <<consecutive_errors, checkpointVars>>
          ELSE IF raises
          THEN /\ MonitorError
               /\ cycle' = [seen EXCEPT !.branch = "error"]
               /\ UNCHANGED checkpointVars
          ELSE IF file_size > last_position
          THEN /\ m_pc' = "reading"
               /\ cycle' = [seen EXCEPT !.branch = "reading"]
               /\ UNCHANGED <<sleep_time, stop_reason, stop_requests>>
               /\ UNCHANGED <<consecutive_errors, checkpointVars>>
          ELSE IF file_size < last_position
          THEN /\ last_position' = 0
               /\ config_position' = 0
               /\ saved_position' = SaveConfig(0, write_ok)
               /\ MonitorSleeps(RotationPause)
               /\ cycle' = [seen EXCEPT !.branch = "rotated",
                                        !.written = write_ok]
               /\ UNCHANGED consecutive_errors
          ELSE /\ MonitorSleeps(Min(base_interval, IdleCap))
               /\ cycle' = [seen EXCEPT !.branch = "unchanged"]
               /\ UNCHANGED <<consecutive_errors, checkpointVars>>
    /\ UNCHANGED <<run_session_id, m_mode, configured_interval, base_interval>>
    /\ UNCHANGED fileVars

\* cli_tool.py:1300-1305 and 1343-1345: the file is opened and read from
\* the checkpoint to its end, as it is by then
MonitorRead ==
    /\ m_pc = "reading"
    /\ \E raises \in BOOLEAN, blank \in BOOLEAN :
          LET read_to == Max(cycle.from, file_size)
              got == [cycle EXCEPT !.read_to = read_to] IN
          IF ~file_exists \/ raises
          THEN /\ MonitorError
               /\ cycle' = [got EXCEPT !.branch = "error"]
          ELSE IF blank \/ read_to = cycle.from
          THEN /\ MonitorSleeps(Min(base_interval, IdleCap))
               /\ cycle' = [got EXCEPT !.branch = "blank"]
               /\ UNCHANGED consecutive_errors
          ELSE /\ m_pc' = "analyzing"
               /\ cycle' = [got EXCEPT !.branch = "analyze",
                                       !.analysis = "pending"]
               /\ UNCHANGED <<sleep_time, stop_reason, stop_requests>>
               /\ UNCHANGED consecutive_errors
    /\ UNCHANGED <<run_session_id, m_mode, configured_interval,
                   base_interval>>
    /\ UNCHANGED checkpointVars
    /\ UNCHANGED fileVars

\* cli_tool.py:1309-1342 with 1432-1493: analyze_logs_with_storage returns
\* and the cycle ends
MonitorAnalyze ==
    /\ m_pc = "analyzing"
    /\ \E analysis \in AnalysisOutcomes(configured_interval),
          storage \in StorageOutcomes, write_ok \in BOOLEAN :
          LET result == AnalyzeLogsWithStorage(analysis, storage) IN
          IF result # None
          THEN /\ last_position' = cycle.size
               /\ config_position' = cycle.size
               /\ saved_position' = SaveConfig(cycle.size, write_ok)
               /\ consecutive_errors' = 0
               /\ analysed_upto' = Max(analysed_upto, cycle.read_to)
               /\ MonitorSleeps(IF result[1] = None THEN base_interval
                                ELSE result[1][1])
               /\ cycle' = [cycle EXCEPT !.analysis = "result",
                                         !.storage = storage,
                                         !.written = write_ok]
          ELSE /\ consecutive_errors < MaxCounted
               /\ consecutive_errors' = consecutive_errors + 1
               /\ MonitorSleeps(base_interval)
               /\ cycle' = [cycle EXCEPT !.analysis = "none"]
               /\ UNCHANGED <<checkpointVars, analysed_upto>>
    /\ UNCHANGED <<run_session_id, m_mode, configured_interval, base_interval>>
    /\ UNCHANGED <<file_exists, file_size>>

\* asyncio.sleep returns: the next cycle starts
MonitorWakes ==
    /\ m_pc = "sleeping"
    /\ m_pc' = "cycle"
    /\ sleep_time' = None
    /\ UNCHANGED <<run_session_id, m_mode, configured_interval, base_interval,
                   consecutive_errors, cycle, stop_reason,
                   stop_requests>>
    /\ UNCHANGED checkpointVars
    /\ UNCHANGED fileVars

\* cli_tool.py:1370-1377, 864-870: the loop is interrupted while it awaits
\* the analysis or sleeps
MonitorCancelled ==
    /\ m_pc \in {"analyzing", "sleeping"}
    /\ MonitorEnds("cancelled")
    /\ UNCHANGED <<run_session_id, m_mode, configured_interval, base_interval,
                   consecutive_errors, cycle>>
    /\ UNCHANGED checkpointVars
    /\ UNCHANGED fileVars

\* cli_tool.py:747-790, start_dynamic_monitoring up to its loop
DynamicStart ==
    /\ m_pc = "idle"
    /\ m_mode' = "dynamic"
    /\ run_session_id' = None
    /\ m_pc' = "cycle"
    /\ \E interval \in BaseIntervals :
          /\ configured_interval' = interval
          /\ base_interval' = interval
    /\ cycle' = NoCycle
    /\ UNCHANGED <<consecutive_errors, sleep_time, stop_reason,
                   stop_requests>>
    /\ UNCHANGED checkpointVars
    /\ UNCHANGED fileVars

\* cli_tool.py:791-862, one cycle of start_dynamic_monitoring: next is None
\* when the cycle raised, found no logs or ran without the AI agent
DynamicCycle ==
    /\ m_pc = "cycle"
    /\ m_mode = "dynamic"
    /\ \E next \in {None} \cup {Some(i) :
                                   i \in AdaptiveIntervals(configured_interval)},
          cycle_duration \in CycleDurations :
          LET base == IF next # None /\ next[1] # base_interval
                      THEN next[1] ELSE base_interval IN
          /\ base_interval' = base
          /\ MonitorSleeps(DynamicSleepTime(base, cycle_duration))
    /\ cycle' = [NoCycle EXCEPT !.branch = "dynamic"]
    /\ UNCHANGED <<run_session_id, m_mode, configured_interval, consecutive_errors>>
    /\ UNCHANGED checkpointVars
    /\ UNCHANGED fileVars

\* cli_tool.py:56-75 and 149-158: the tool is run again and loads its
\* configuration from the file
Relaunch ==
    /\ m_pc = "ended"
    /\ m_pc' = "idle"
    /\ config_position' = saved_position
    /\ last_position' = 0
    /\ consecutive_errors' = 0
    /\ cycle' = NoCycle
    /\ sleep_time' = None
    /\ stop_reason' = "none"
    /\ stop_requests' = 0
    /\ UNCHANGED <<run_session_id, m_mode, configured_interval, base_interval,
                   saved_position>>
    /\ UNCHANGED fileVars

\* the monitored system appends to its log
FileGrows ==
    /\ file_exists
    /\ file_size < MaxFileSize
    /\ file_size' = file_size + 1
    /\ UNCHANGED <<file_exists, analysed_upto>>

\* the log is rotated: a new, empty file takes its place
FileRotates ==
    /\ file_exists
    /\ file_size > 0
    /\ file_size' = 0
    /\ analysed_upto' = 0
    /\ UNCHANGED file_exists

\* the log file is removed
FileRemoved ==
    /\ file_exists
    /\ file_exists' = FALSE
    /\ file_size' = 0
    /\ analysed_upto' = 0

loopVars == <<m_pc, m_mode, configured_interval, base_interval,
              last_position, config_position, saved_position,
              consecutive_errors, cycle, sleep_time, stop_reason,
              run_session_id, stop_requests>>

\* -------------------------------------------------- the monitoring sessions
\* number of sessions created
MaxSessions == 3

\* session ids: uuid4 values, in the order they are drawn
SessionIds == 1..MaxSessions
\* an id no session was created with
UnknownSession == 0

\* the authenticated users (routers/auth.py, get_current_user)
Usernames == {"alice", "bob"}
\* the username of no document
NoUser == "none"

InitSessions ==
    /\ sessions = [id \in SessionIds |-> "absent"]
    /\ session_owner = [id \in SessionIds |-> NoUser]
    /\ sess_last = [op |-> "none", session_id |-> UnknownSession,
                    user |-> NoUser,
                    before |-> [id \in SessionIds |-> "absent"],
                    result |-> FALSE, http |-> 200]

\* the username of a session's document
OwnerOf(owners, session_id) ==
    IF session_id \in SessionIds THEN owners[session_id] ELSE NoUser

StatusOf(docs, session_id) ==
    IF session_id \in SessionIds THEN docs[session_id] ELSE "absent"

\* variant: the filter names the session only
StopMatches_AnyStatus(status) == status # "absent"

\* analysis_storage_service.py:183, the filter of the update: the session's
\* document, if its status is active
StopMatches(status) == status = "active"

\* analysis_storage_service.py:182-186, update_one
StopUpdate(docs, session_id) ==
    IF StopMatches(StatusOf(docs, session_id))
    THEN [docs EXCEPT ![session_id] = "stopped"]
    ELSE docs

\* analysis_storage_service.py:187, result.modified_count: the update
\* writes a new stopped_at, so every matched document is modified
ModifiedCount(docs, session_id) ==
    Cardinality({id \in {session_id} : StopMatches(StatusOf(docs, id))})

\* routers/monitoring.py:46-72 with analysis_storage_service.py:155-177
CreateMonitoringSession ==
    /\ \E id \in SessionIds, username \in Usernames :
          /\ sessions[id] = "absent"
          /\ \A other \in SessionIds : other < id => sessions[other] # "absent"
          /\ \E insert_raises \in BOOLEAN :
                IF insert_raises
                THEN /\ UNCHANGED <<sessions, session_owner>>
                     /\ sess_last' = [op |-> "create", session_id |-> id,
                                      user |-> username,
                                      before |-> sessions, result |-> FALSE,
                                      http |-> 500]
                ELSE /\ sessions' = [sessions EXCEPT ![id] = "active"]
                     /\ session_owner' =
                           [session_owner EXCEPT ![id] = username]
                     /\ sess_last' = [op |-> "create", session_id |-> id,
                                      user |-> username,
                                      before |-> sessions, result |-> TRUE,
                                      http |-> 200]

\* routers/monitoring.py:74-97 with analysis_storage_service.py:179-189;
\* update_one raises before or after the update is applied, or not at all
\* current_user is not read: the update is asked for whoever the caller is
StopMonitoringSession ==
    \E session_id \in SessionIds \cup {UnknownSession},
       current_user \in Usernames,
       update_raises \in {"no", "before", "after"} :
       LET updated == StopUpdate(sessions, session_id)
           success == /\ update_raises = "no"
                      /\ ModifiedCount(sessions, session_id) > 0 IN
       /\ sessions' = IF update_raises = "before" THEN sessions ELSE updated
       /\ sess_last' = [op |-> "stop", session_id |-> session_id,
                        user |-> current_user,
                        before |-> sessions, result |-> success,
                        http |-> IF success THEN 200 ELSE 404]
       /\ UNCHANGED session_owner

\* routers/monitoring.py:133-135, the session of another user is refused
GetSessionStatus(docs, owners, session_id, current_user) ==
    IF StatusOf(docs, session_id) = "absent" THEN 404
    ELSE IF OwnerOf(owners, session_id) # current_user THEN 403
    ELSE 200

\* routers/monitoring.py:121-143 with analysis_storage_service.py:216-236
GetMonitoringSession ==
    /\ \E session_id \in SessionIds \cup {UnknownSession},
          current_user \in Usernames :
          LET http == GetSessionStatus(sessions, session_owner, session_id,
                                       current_user) IN
          sess_last' = [op |-> "get", session_id |-> session_id,
                        user |-> current_user,
                        before |-> sessions, result |-> http = 200,
                        http |-> http]
    /\ UNCHANGED <<sessions, session_owner>>

\* routers/monitoring.py:99-119 with analysis_storage_service.py:191-214
GetActiveSessions ==
    /\ \E current_user \in Usernames :
          sess_last' = [op |-> "list", session_id |-> UnknownSession,
                        user |-> current_user,
                        before |-> sessions,
                        result |-> \E id \in SessionIds :
                                     /\ sessions[id] = "active"
                                     /\ session_owner[id] = current_user,
                        http |-> 200]
    /\ UNCHANGED <<sessions, session_owner>>

\* --------------------------------------------------------------- the AI agent
\* the keywords of the pattern table
Keywords == {"critical", "failed login", "privilege escalation",
             "suspicious process"}
\* log lines, by the keywords they hold (test_cli.py:144-150)
LogLines == {line \in SUBSET Keywords : Cardinality(line) <= 2}
\* a pattern's counter is followed up to this value
MaxPatternCount == 2

CountOf(store, signature) ==
    IF signature \in DOMAIN store THEN store[signature] ELSE 0

\* AIAgent.extract_log_patterns: every signature found in the line has its
\* counter in the store incremented
LearnPatterns(store, line) ==
    [signature \in DOMAIN store \cup line |->
        CountOf(store, signature) + (IF signature \in line THEN 1 ELSE 0)]

\* variant: the agent alone decides
ResetClears_NoConfirm(confirm, agent_enabled) == agent_enabled

\* cli_tool.py:1973, the guard of the reset
ResetClears(confirm, agent_enabled) == confirm /\ agent_enabled

NoBounds == [base |-> 0, lo |-> 0, hi |-> 0]
NoSchedule == [l \in Levels |-> 0]

InitAgent ==
    /\ learned_patterns = <<>>
    /\ agent_call = [cmd |-> "none", confirm |-> FALSE, before |-> <<>>]
    /\ sched_bounds = NoBounds
    /\ schedule = NoSchedule

\* test_cli.py:152-158, ai_agent.extract_log_patterns(log)
ExtractLogPatterns ==
    /\ \E line \in LogLines :
          /\ \A signature \in line :
                CountOf(learned_patterns, signature) < MaxPatternCount
          /\ learned_patterns' = LearnPatterns(learned_patterns, line)
    /\ agent_call' = [cmd |-> "extract", confirm |-> FALSE,
                      before |-> learned_patterns]
    /\ UNCHANGED <<sched_bounds, schedule>>

\* cli_tool.py:1972-1981, agent reset [--confirm]
AgentReset ==
    /\ \E confirm \in BOOLEAN, agent_enabled \in BOOLEAN :
          /\ learned_patterns' = IF ResetClears(confirm, agent_enabled)
                                 THEN <<>> ELSE learned_patterns
          /\ agent_call' = [cmd |-> "reset", confirm |-> confirm,
                            before |-> learned_patterns]
    /\ UNCHANGED <<sched_bounds, schedule>>

\* test_cli.py:95-98, cli_tool.py:846: adaptive_schedule_analysis, asked
\* for every severity level under the same bounds
AdaptiveScheduleAnalysis ==
    /\ \E base \in BaseIntervals, lo \in MinIntervals, hi \in MaxIntervals :
          /\ sched_bounds' = [base |-> base, lo |-> lo, hi |-> hi]
          /\ schedule' = [l \in Levels |-> NextInterval(l, base, lo, hi)]
    /\ agent_call' = [cmd |-> "schedule", confirm |-> FALSE,
                      before |-> learned_patterns]
    /\ UNCHANGED learned_patterns

\* ------------------------------------------------- the load of the corpus
\* chromadb_service.py:127, batch_size
BatchSize == 100
\* number of full batches of the largest corpus
MaxBatches == 2
\* number of objects of the files that hold malformed records
MaxObjects == 2

\* an object of the STIX file: its type, and whether its
\* external_references is a non-empty list, an empty list or missing
ObjectTypes == {"attack-pattern", "relationship"}
ExternalReferences == {"present", "empty", "missing"}
StixObjects == [type : ObjectTypes, external_references : ExternalReferences]
WellFormed == [type |-> "attack-pattern", external_references |-> "present"]

\* the files: short ones of every make-up, and long well-formed ones of one
\* object, of just more than one batch and of just more than MaxBatches
StixFiles ==
    UNION {[1..n -> StixObjects] : n \in 0..MaxObjects}
    \cup {[i \in 1..n |-> WellFormed] :
             n \in {BatchSize + 1, MaxBatches * BatchSize + 1}}

\* chromadb_service.py:31, obj.get('external_references', [{}])[0]: an
\* empty list has no first element
FirstReferenceRaises(obj) == obj.external_references = "empty"

\* chromadb_service.py:29-39: the technique of the i-th object; the
\* position of an object stands for its STIX id
Technique(objects, i) ==
    [id |-> i,
     technique_id |-> IF objects[i].external_references = "present"
                      THEN "T1059" ELSE ""]

\* chromadb_service.py:27-45: the techniques of the objects lo..hi, in the
\* file's order (the loop, computed by halves)
RECURSIVE TechniquesIn(_, _, _)
TechniquesIn(objects, lo, hi) ==
    IF lo > hi THEN <<>>
    ELSE IF lo = hi
    THEN (IF objects[lo].type = "attack-pattern"
          THEN <<Technique(objects, lo)>> ELSE <<>>)
    ELSE LET mid == (lo + hi) \div 2 IN
         TechniquesIn(objects, lo, mid) \o TechniquesIn(objects, mid + 1, hi)

\* chromadb_service.py:19-52: the techniques of the file; [] when the file
\* cannot be read and when the loop raises
load_attack_data(objects, readable) ==
    IF ~readable THEN <<>>
    ELSE IF \E i \in DOMAIN objects :
               /\ objects[i].type = "attack-pattern"
               /\ FirstReferenceRaises(objects[i])
    THEN <<>>
    ELSE TechniquesIn(objects, 1, Len(objects))

\* chromadb_service.py:128, range(0, len(documents), batch_size)
BatchCount(n) == (n + BatchSize - 1) \div BatchSize

\* chromadb_service.py:129-137: the collection after the first k batches
AfterBatches(coll, techniques, k) ==
    coll \cup {techniques[i].id :
                  i \in 1..Min(k * BatchSize, Len(techniques))}

\* variant: the collection is loaded whatever it holds
AlreadyPopulated_Never(count) == FALSE

\* chromadb_service.py:98-101
AlreadyPopulated(count) == count > 0

\* chromadb_service.py:94-146: count_raises says whether collection.count
\* raised, failed_batch which collection.add did (0: none).  The value
\* returned is True on every path.
initialize_database(coll, objects, readable, count_raises, failed_batch) ==
    IF count_raises
    THEN [collection |-> coll, loaded |-> None, raised |-> TRUE]
    ELSE IF AlreadyPopulated(Cardinality(coll))
    THEN [collection |-> coll, loaded |-> None, raised |-> FALSE]
    ELSE LET techniques == load_attack_data(objects, readable) IN
         IF techniques = <<>>
         THEN [collection |-> coll, loaded |-> Some({}), raised |-> FALSE]
         ELSE LET loaded == Some({techniques[i].id : i \in DOMAIN techniques})
              IN  IF failed_batch = 0
                  THEN [collection |->
                            AfterBatches(coll, techniques,
                                         BatchCount(Len(techniques))),
                        loaded |-> loaded, raised |-> FALSE]
                  ELSE [collection |->
                            AfterBatches(coll, techniques, failed_batch - 1),
                        loaded |-> loaded, raised |-> TRUE]

NoInitCall == [op |-> "none", before |-> {}, loaded |-> None,
               raised |-> FALSE]

InitLoad ==
    /\ stix_objects = <<>>
    /\ stix_readable = FALSE
    /\ init_call = NoInitCall

\* the server is installed with its STIX file (config.py:36)
InstallCorpus ==
    /\ init_call.op = "none"
    /\ collection = {}
    /\ \E objects \in StixFiles, readable \in BOOLEAN :
          /\ stix_objects' = objects
          /\ stix_readable' = readable
    /\ init_call' = [NoInitCall EXCEPT !.op = "install"]
    /\ UNCHANGED collection

\* main.py:31-42 -> ChromaDBService.initialize_database, at every start of
\* the server
InitializeDatabase ==
    /\ init_call.op # "none"
    /\ \E count_raises \in BOOLEAN,
          failed_batch \in 0..BatchCount(Len(stix_objects)) :
          LET out == initialize_database(collection, stix_objects,
                                         stix_readable, count_raises,
                                         failed_batch) IN
          /\ collection' = out.collection
          /\ init_call' = [op |-> "initialize", before |-> collection,
                           loaded |-> out.loaded, raised |-> out.raised]
    /\ UNCHANGED <<stix_objects, stix_readable>>

\* the STIX file is made readable (put in place, or repaired)
RepairCorpus ==
    /\ init_call.op = "initialize"
    /\ ~stix_readable
    /\ stix_readable' = TRUE
    /\ init_call' = [init_call EXCEPT !.op = "install"]
    /\ UNCHANGED <<stix_objects, collection>>

\* ------------------------------------------- the search entry points and k
\* mitre.py:48, le of RagQueryRequest.max_context_techniques
MaxContextTechniques == 10

\* what a caller puts in max_results: nothing, null or an integer
Omitted == [kind |-> "omitted", n |-> 0]
Null == [kind |-> "null", n |-> 0]
IntValue(n) == [kind |-> "int", n |-> n]
MaxResultsInputs ==
    {Omitted, Null} \cup {IntValue(n) : n \in (0 - 1)..(MaxQueryResults + 2)}

\* pydantic, Optional[int] = Field(default, ge = 1, le = hi): the value the
\* handler sees, or a rejection (HTTP 422)
OptionalIntField(input, default, hi) ==
    IF input.kind = "omitted" THEN [ok |-> TRUE, value |-> Some(default)]
    ELSE IF input.kind = "null" THEN [ok |-> TRUE, value |-> None]
    ELSE IF input.n >= 1 /\ input.n <= hi
         THEN [ok |-> TRUE, value |-> Some(input.n)]
         ELSE [ok |-> FALSE, value |-> None]

\* mitre.py:105, int = Query(5, ge = 1, le = 20)
BoundedIntQuery(input, default, hi) ==
    IF input.kind = "omitted" THEN [ok |-> TRUE, value |-> Some(default)]
    ELSE IF input.kind = "int" /\ input.n >= 1 /\ input.n <= hi
         THEN [ok |-> TRUE, value |-> Some(input.n)]
         ELSE [ok |-> FALSE, value |-> None]

\* analysis.py:134, max_results: int = 5: any integer is accepted
PlainIntQuery(input, default) ==
    IF input.kind = "omitted" THEN [ok |-> TRUE, value |-> Some(default)]
    ELSE IF input.kind = "int" THEN [ok |-> TRUE, value |-> Some(input.n)]
    ELSE [ok |-> FALSE, value |-> None]

NoEntryCall == [endpoint |-> "none", input |-> Omitted, status |-> 200,
                queried |-> FALSE, k |-> None]

InitEntry == entry_call = NoEntryCall

\* the request is rejected, or the index is asked for k results (None: the
\* Python value None is passed on as n_results)
Rejected(endpoint, input) ==
    [endpoint |-> endpoint, input |-> input, status |-> 422,
     queried |-> FALSE, k |-> None]
Queried(endpoint, input, k) ==
    [endpoint |-> endpoint, input |-> input, status |-> 200,
     queried |-> TRUE, k |-> k]

\* analysis.py:27-75 with logs_model.py:9 and chromadb_service.py:160-167
PostAnalyze ==
    \E input \in MaxResultsInputs :
       LET field == OptionalIntField(input, DefaultMaxResults,
                                     MaxQueryResults) IN
       entry_call' =
          IF field.ok
          THEN Queried("analyze", input, Some(ChromaRequestedK(field.value)))
          ELSE Rejected("analyze", input)

\* analysis.py:133-152 with chromadb_service.py:160-167
PostSearchTechniques ==
    \E input \in MaxResultsInputs :
       LET param == PlainIntQuery(input, DefaultMaxResults) IN
       entry_call' =
          IF param.ok
          THEN Queried("search-techniques", input,
                       Some(ChromaRequestedK(param.value)))
          ELSE Rejected("search-techniques", input)

\* mitre.py:62-84 with aws_bedrock_service.py:119-122: n_results is passed
\* to the index as it is
PostMitreSearch ==
    \E input \in MaxResultsInputs :
       LET field == OptionalIntField(input, DefaultMaxResults,
                                     MaxQueryResults) IN
       entry_call' =
          IF field.ok THEN Queried("mitre-search", input, field.value)
          ELSE Rejected("mitre-search", input)

\* mitre.py:102-113
GetMitreSearch ==
    \E input \in MaxResultsInputs :
       LET param == BoundedIntQuery(input, DefaultMaxResults,
                                    MaxQueryResults) IN
       entry_call' =
          IF param.ok THEN Queried("mitre-search-get", input, param.value)
          ELSE Rejected("mitre-search-get", input)

\* mitre.py:46-48 and mitre.py:399-403
PostRagQuery ==
    \E input \in MaxResultsInputs :
       LET field == OptionalIntField(input, DefaultMaxResults,
                                     MaxContextTechniques) IN
       entry_call' =
          IF field.ok THEN Queried("rag-query", input, field.value)
          ELSE Rejected("rag-query", input)

\* ------------------------------------------------ the command-line tool
\* the commands of main whose outcome the tool reports with a mark
Commands == {"auth login", "auth register", "auth profile", "profile setup",
             "profile setup-dynamic", "profile update", "send", "analyze",
             "data analysis", "data sessions"}

\* what a run meets: whether a session token is loaded, whether the stored
\* credentials can be decrypted, whether the operation of the command
\* succeeds, and one option of the command (register: the two passwords
\* match; setup-dynamic: --list-sources; update: a setting is given;
\* data: --export)
RunInputs == [command : Commands, token : BOOLEAN, credentials : BOOLEAN,
              ok : BOOLEAN, option : BOOLEAN]

\* what a run does: the mark it prints and how the process ends
Succeeds == [mark |-> "done", exit_code |-> 0]
Quiet == [mark |-> "none", exit_code |-> 0]
\* sys.exit(1) after the failure mark
FailsAndExits == [mark |-> "failed", exit_code |-> 1]
\* the failure mark, and main returns
FailsAndReturns == [mark |-> "failed", exit_code |-> 0]

\* cli_tool.py:1819-1825, 1897-1903: no token and no stored credentials
NoCredentials(run) == ~run.token /\ ~run.credentials

\* cli_tool.py:1683-1718
AuthCommand(run) ==
    IF run.command = "auth register" /\ ~run.option THEN FailsAndExits
    ELSE IF run.ok THEN Succeeds ELSE FailsAndExits

\* cli_tool.py:1720-1815
ProfileCommand(run) ==
    IF run.command = "profile setup-dynamic" /\ run.option THEN Quiet
    ELSE IF run.command = "profile update" /\ ~run.option THEN Quiet
    ELSE IF run.ok THEN Succeeds ELSE FailsAndExits

\* cli_tool.py:1817-1832 and 1895-1934
SendCommand(run) ==
    IF NoCredentials(run) THEN FailsAndExits
    ELSE IF run.ok THEN Succeeds ELSE FailsAndReturns

\* cli_tool.py:1983-2010
DataCommand(run) ==
    IF ~run.option THEN Quiet
    ELSE IF run.ok THEN Succeeds ELSE FailsAndReturns

\* cli_tool.py:1682-2027, the dispatch of main
Main(run) ==
    IF run.command \in {"auth login", "auth register", "auth profile"}
    THEN AuthCommand(run)
    ELSE IF run.command \in {"profile setup", "profile setup-dynamic",
                             "profile update"}
    THEN ProfileCommand(run)
    ELSE IF run.command \in {"send", "analyze"}
    THEN SendCommand(run)
    ELSE DataCommand(run)

InitMain ==
    cli_run = [input |-> [command |-> "none", token |-> FALSE,
                          credentials |-> FALSE, ok |-> FALSE,
                          option |-> FALSE],
               mark |-> "none", exit_code |-> 0]

\* one run of the tool, from the command line to the end of the process
RunMain ==
    \E run \in RunInputs :
       cli_run' = [input |-> run, mark |-> Main(run).mark,
                   exit_code |-> Main(run).exit_code]

\* ------------------------------------------ send_logs_with_retry and its cache
\* cli_tool.py:471, timedelta(hours=1) in seconds
CacheTtl == 3600

\* the largest max_retries a caller passes (the default is 3, cli_tool.py:480)
MaxRetries == 3

LogContents == {"log a", "log b"}

\* the instants at which something happens, around the age limit of the cache
ClockValues == {0, CacheTtl - 1, CacheTtl, 2 * CacheTtl - 1, 2 * CacheTtl}

\* cli_tool.py:437, 462: the first 16 hex digits of the SHA-256 of the content;
\* two of the contents of the model never share a digest
LogHash(log_content) == <<"sha256", log_content>>

LogHashes == {LogHash(l) : l \in LogContents}

\* the answer of the server to logs sent at an instant: a non-empty object
AnalysisResult(log_content, at) == [logs |-> log_content, at |-> at]

\* cli_tool.py:440-448, the cache file written for a result
CacheData(log_content, result, at) ==
    [timestamp |-> at, log_content_hash |-> LogHash(log_content),
     result |-> result]

\* cli_tool.py:430-453, _cache_analysis_result; a failure to write is logged
\* and leaves the files as they are
CacheAnalysisResult(files, log_content, result, at, written) ==
    IF written
    THEN [files EXCEPT ![LogHash(log_content)] =
              Some(CacheData(log_content, result, at))]
    ELSE files

\* cli_tool.py:455-478, get_cached_analysis: the result of the file of the
\* content's hash if it is younger than an hour; None without a file, for an
\* older file and for a file that cannot be read
get_cached_analysis(files, log_content, at, readable) ==
    LET cache_file == files[LogHash(log_content)] IN
    IF cache_file = None \/ ~readable THEN None
    ELSE IF at - cache_file[1].timestamp < CacheTtl
    THEN Some(cache_file[1].result)
    ELSE None

\* what one call of send_logs comes to: a result that is cached, a result
\* whose cache file could not be written, no result, an exception
SendOutcomes == {"cached", "uncached", "none", "raised"}

\* cli_tool.py:379-427, send_logs: the result and the cache after the call
send_logs(files, log_content, at, outcome) ==
    LET result == AnalysisResult(log_content, at) IN
    IF outcome \in {"cached", "uncached"}
    THEN [result |-> Some(result),
          files |-> CacheAnalysisResult(files, log_content, result, at,
                                        outcome = "cached")]
    ELSE [result |-> None, files |-> files]

NoRetry ==
    [pc |-> "idle", log_content |-> "", max_retries |-> 0, attempt |-> 0,
     events |-> <<>>, returned |-> None, entry |-> None, readable |-> FALSE,
     called_at |-> 0]

InitRetry ==
    /\ now = 0
    /\ cache = [h \in LogHashes |-> None]
    /\ retry = NoRetry

SendEvent(attempt, result) ==
    [kind |-> "send", attempt |-> attempt, result |-> result # None,
     seconds |-> 0]

SleepEvent(attempt, seconds) ==
    [kind |-> "sleep", attempt |-> attempt, result |-> FALSE,
     seconds |-> seconds]

\* cli_tool.py:492-495: the cache is asked first; 498: range(max_retries)
SendLogsWithRetry ==
    /\ retry.pc = "idle"
    /\ \E log_content \in LogContents, max_retries \in 0..MaxRetries,
          readable \in BOOLEAN :
          LET cached_result ==
                  get_cached_analysis(cache, log_content, now, readable)
              call == [NoRetry EXCEPT !.log_content = log_content,
                                      !.max_retries = max_retries,
                                      !.entry = cache[LogHash(log_content)],
                                      !.readable = readable,
                                      !.called_at = now]
          IN  retry' =
                 IF cached_result # None
                 THEN [call EXCEPT !.pc = "done", !.returned = cached_result]
                 ELSE IF max_retries > 0
                 THEN [call EXCEPT !.pc = "attempt"]
                 ELSE [call EXCEPT !.pc = "done"]
    /\ UNCHANGED <<now, cache>>

\* variant: the call sleeps after every failed attempt
SleepsBeforeRetry_Always(attempt, max_retries) == TRUE

\* cli_tool.py:505, 511: if attempt < max_retries - 1
SleepsBeforeRetry(attempt, max_retries) == attempt < max_retries - 1

\* cli_tool.py:498, the for statement goes to its next attempt or ends
NextAttempt(r) ==
    IF r.attempt + 1 < r.max_retries
    THEN [r EXCEPT !.pc = "attempt", !.attempt = r.attempt + 1]
    ELSE [r EXCEPT !.pc = "done", !.attempt = r.attempt + 1]

\* cli_tool.py:499-512, one pass of the loop up to its sleep
RetryAttempt ==
    /\ retry.pc = "attempt"
    /\ \E outcome \in SendOutcomes :
          LET sent == send_logs(cache, retry.log_content, now, outcome)
              tried == [retry EXCEPT
                           !.events = Append(@, SendEvent(retry.attempt,
                                                          sent.result))]
          IN  /\ cache' = sent.files
              /\ retry' =
                    IF sent.result # None
                    THEN [tried EXCEPT !.pc = "done",
                                       !.returned = sent.result]
                    ELSE IF SleepsBeforeRetry(retry.attempt, retry.max_retries)
                    THEN [tried EXCEPT
                             !.pc = "sleeping",
                             !.events = Append(@,
                                 SleepEvent(retry.attempt,
                                            Pow2(retry.attempt)))]
                    ELSE NextAttempt(tried)
    /\ UNCHANGED now

\* cli_tool.py:507, 512: asyncio.sleep(2 ** attempt) returns
RetrySleepEnds ==
    /\ retry.pc = "sleeping"
    /\ retry' = NextAttempt(retry)
    /\ UNCHANGED <<now, cache>>

\* cli_tool.py:495, 502, 514: the caller has the value
RetryReturns ==
    /\ retry.pc = "done"
    /\ retry' = NoRetry
    /\ UNCHANGED <<now, cache>>

\* time passes
ClockAdvances ==
    /\ \E t \in ClockValues : t > now /\ now' = t
    /\ UNCHANGED <<cache, retry>>

\* ----------------------------------------------------------- specification
vars == <<corpusVars, searchVars, runVars, notServerVars>>

StartServer == Lifespan /\ UNCHANGED searchVars /\ UNCHANGED runVars
    /\ UNCHANGED notServerVars
RestartServer == Restart /\ UNCHANGED searchVars /\ UNCHANGED runVars
    /\ UNCHANGED notServerVars
CallSearchTechniques == SearchTechniques /\ UNCHANGED runVars
    /\ UNCHANGED notServerVars
CallSearchMitreTechniques == SearchMitreTechniques /\ UNCHANGED runVars
    /\ UNCHANGED notServerVars
CallRetrieveAndSummarize == RetrieveAndSummarize /\ UNCHANGED runVars
    /\ UNCHANGED notServerVars
CallReturns == SearchReturns /\ UNCHANGED runVars
    /\ UNCHANGED notServerVars

Init ==
    /\ InitCorpus
    /\ InitSearch
    /\ InitRun
    /\ InitIoc
    /\ InitMonitor
    /\ InitSessions
    /\ InitAgent
    /\ InitLoad
    /\ InitEntry
    /\ InitMain
    /\ InitRetry

\* Requests are served one at a time: they share only the collection, which
\* no request writes.
Next ==
    \/ StartServer
    \/ RestartServer
    \/ CallSearchTechniques
    \/ CallSearchMitreTechniques
    \/ CallRetrieveAndSummarize
    \/ CallReturns
    \/ Receive
    \/ Summarize
    \/ Search
    \/ Enhance
    \/ Store
    \/ Retrieve
    \/ SummarizeV2
    \/ EnhanceV2
    \/ Respond

Spec == Init /\ [][Next]_vars

\* ----------------------------------- specification of the extraction functions
serverVars == <<corpusVars, searchVars, runVars>>
notIocVars == <<serverVars, monitorVars, sessionVars, agentVars, loadVars,
                 entryVars, mainVars, retryVars>>

CallExtractIocs == ExtractIocs /\ UNCHANGED notIocVars
CallRunAnalysisPipeline == RunAnalysisPipeline /\ UNCHANGED notIocVars
CallIocReturns == IocReturns /\ UNCHANGED notIocVars

NextIoc ==
    \/ CallExtractIocs
    \/ CallRunAnalysisPipeline
    \/ CallIocReturns

SpecIoc == Init /\ [][NextIoc]_vars

\* -------------------------------------- specification of the monitoring loops
notMonitorVars == <<serverVars, iocVars, sessionVars, agentVars, loadVars,
                     entryVars, mainVars, retryVars>>

\* the loops run in the command-line tool, whatever corpus the server holds
InitCli == Init /\ corpus = <<>> /\ corpus_ok = TRUE

StartMonitorLogs == MonitorStart /\ UNCHANGED notMonitorVars
RunMonitorCycle == MonitorCycle /\ UNCHANGED notMonitorVars
RunMonitorRead == MonitorRead /\ UNCHANGED notMonitorVars
RunMonitorAnalyze == MonitorAnalyze /\ UNCHANGED notMonitorVars
WakeMonitor == MonitorWakes /\ UNCHANGED notMonitorVars
CancelMonitor == MonitorCancelled /\ UNCHANGED notMonitorVars
StartDynamicMonitoring == DynamicStart /\ UNCHANGED notMonitorVars
RunDynamicCycle == DynamicCycle /\ UNCHANGED notMonitorVars
RelaunchTool == Relaunch /\ UNCHANGED notMonitorVars
AppendToLog == FileGrows /\ UNCHANGED loopVars /\ UNCHANGED notMonitorVars
RotateLog == FileRotates /\ UNCHANGED loopVars /\ UNCHANGED notMonitorVars
RemoveLog == FileRemoved /\ UNCHANGED loopVars /\ UNCHANGED notMonitorVars

NextMonitor ==
    \/ StartMonitorLogs
    \/ RunMonitorCycle
    \/ RunMonitorRead
    \/ RunMonitorAnalyze
    \/ WakeMonitor
    \/ CancelMonitor
    \/ StartDynamicMonitoring
    \/ RunDynamicCycle
    \/ RelaunchTool
    \/ AppendToLog
    \/ RotateLog
    \/ RemoveLog

SpecMonitor == InitCli /\ [][NextMonitor]_vars

\* ----------------------------------- specification of the session endpoints
notSessionVars == <<serverVars, iocVars, monitorVars, agentVars, loadVars,
                     entryVars, mainVars, retryVars>>

PostSession == CreateMonitoringSession /\ UNCHANGED notSessionVars
PostSessionStop == StopMonitoringSession /\ UNCHANGED notSessionVars
GetSession == GetMonitoringSession /\ UNCHANGED notSessionVars
GetSessions == GetActiveSessions /\ UNCHANGED notSessionVars

NextSessions ==
    \/ PostSession
    \/ PostSessionStop
    \/ GetSession
    \/ GetSessions

SpecSessions == InitCli /\ [][NextSessions]_vars

\* ------------------------------------------------ specification of the AI agent
notAgentVars == <<serverVars, iocVars, monitorVars, sessionVars, loadVars,
                   entryVars, mainVars, retryVars>>

CallExtractLogPatterns == ExtractLogPatterns /\ UNCHANGED notAgentVars
RunAgentReset == AgentReset /\ UNCHANGED notAgentVars
CallAdaptiveScheduleAnalysis == AdaptiveScheduleAnalysis /\ UNCHANGED notAgentVars

NextAgent ==
    \/ CallExtractLogPatterns
    \/ RunAgentReset
    \/ CallAdaptiveScheduleAnalysis

SpecAgent == InitCli /\ [][NextAgent]_vars

\* ------------------------------------------ specification of the corpus load
notLoadVars == <<corpus, corpus_ok, server, searchVars, runVars, iocVars,
                 monitorVars, sessionVars, agentVars, entryVars, mainVars,
                 retryVars>>

InstallStixFile == InstallCorpus /\ UNCHANGED notLoadVars
StartupInitializeDatabase == InitializeDatabase /\ UNCHANGED notLoadVars
RepairStixFile == RepairCorpus /\ UNCHANGED notLoadVars

NextLoad ==
    \/ InstallStixFile
    \/ StartupInitializeDatabase
    \/ RepairStixFile

SpecLoad == InitCli /\ [][NextLoad]_vars

\* ------------------------------------ specification of the search entry points
notEntryVars == <<serverVars, iocVars, monitorVars, sessionVars, agentVars,
                  loadVars, mainVars, retryVars>>

RequestAnalyze == PostAnalyze /\ UNCHANGED notEntryVars
RequestSearchTechniques == PostSearchTechniques /\ UNCHANGED notEntryVars
RequestMitreSearch == PostMitreSearch /\ UNCHANGED notEntryVars
RequestMitreSearchGet == GetMitreSearch /\ UNCHANGED notEntryVars
RequestRagQuery == PostRagQuery /\ UNCHANGED notEntryVars

NextEntry ==
    \/ RequestAnalyze
    \/ RequestSearchTechniques
    \/ RequestMitreSearch
    \/ RequestMitreSearchGet
    \/ RequestRagQuery

SpecEntry == InitCli /\ [][NextEntry]_vars

\* --------------------------------------- specification of the tool's commands
notMainVars == <<serverVars, iocVars, monitorVars, sessionVars, agentVars,
                 loadVars, entryVars, retryVars>>

RunCommand == RunMain /\ UNCHANGED notMainVars

NextMain == RunCommand

SpecMain == InitCli /\ [][NextMain]_vars

\* ----------------------------------- specification of send_logs_with_retry
notRetryVars == <<serverVars, iocVars, monitorVars, sessionVars, agentVars,
                  loadVars, entryVars, mainVars>>

CallSendLogsWithRetry == SendLogsWithRetry /\ UNCHANGED notRetryVars
AttemptSendLogs == RetryAttempt /\ UNCHANGED notRetryVars
BackoffSleepEnds == RetrySleepEnds /\ UNCHANGED notRetryVars
SendLogsWithRetryReturns == RetryReturns /\ UNCHANGED notRetryVars
TimePasses == ClockAdvances /\ UNCHANGED notRetryVars

NextRetry ==
    \/ CallSendLogsWithRetry
    \/ AttemptSendLogs
    \/ BackoffSleepEnds
    \/ SendLogsWithRetryReturns
    \/ TimePasses

SpecRetry == InitCli /\ [][NextRetry]_vars

\* ================================================================ properties
IsSortedDesc(ts) ==
    \A i \in 1..(Len(ts) - 1) :
        ts[i].relevance_score >= ts[i + 1].relevance_score

CallsOf(op) == {i \in 1..Len(calls) : calls[i].op = op}

\* the generation call answered without raising and without any text
AnsweredEmpty(call) == ~call.failed /\ call.text = <<>>

\* C1: in the analysis.py pipeline, a summarization call that raised or
\* answered with empty text ends the run with an error and no report, and no
\* report carries an error or placeholder string of summarize_logs as its
\* summary.
C1_SummaryFailureFailsHard ==
    request.route = "v1" =>
        /\ \A i \in CallsOf("summarize") :
              (calls[i].failed \/ AnsweredEmpty(calls[i]))
                  => (pc = "failed" /\ response = None
                      /\ http_error = Some(500))
        /\ response # None =>
              /\ response[1].summary # EmptySummaryPlaceholder
              /\ ~StartsWith(response[1].summary, ErrorSummaryPrefix)

\* C2: when the enhancement call of a run raised or answered with no text,
\* the run still returns a report and the report's enhanced_analysis is
\* null.
C2_EnhancementFailureAbsorbed ==
    \A i \in CallsOf("enhance") :
        (calls[i].failed \/ AnsweredEmpty(calls[i])) =>
            /\ pc # "failed"
            /\ pc = "done" =>
                  (response # None /\ response[1].enhanced_analysis = None)

\* the place of an external step in the fixed order
StepRank(op) ==
    CASE op = "summarize" -> 1
      [] op = "search" -> 2
      [] op = "enhance" -> 3
      [] op = "store" -> 4

\* the summarization call produced a usable summary
ValidSummaryCall(call) ==
    call.op = "summarize" /\ ~call.failed /\ Strip(call.text) # <<>>

\* C3: the external steps of a run occur in the order summarize, search,
\* enhance, store, none twice; a search is issued only after a valid summary
\* was obtained and its query is that summary text, not the raw logs; after
\* a failed or empty summarization the run makes no further external call.
C3_LinearOrderSummaryQuery ==
    /\ \A i, j \in 1..Len(calls) :
          i < j => StepRank(calls[i].op) < StepRank(calls[j].op)
    /\ \A i \in CallsOf("search") :
          /\ \E j \in 1..(i - 1) :
                /\ ValidSummaryCall(calls[j])
                /\ calls[i].arg = Strip(calls[j].text)
          /\ calls[i].arg # request.logs
    /\ \A j \in CallsOf("summarize") :
          ~ValidSummaryCall(calls[j]) => Len(calls) = j

\* the run is at or past the enhancement gate
PastGate == pc \in {"enhance", "store", "enhance_v2", "done"}

\* C4: a run calls the enhancement only if the request's enhance_with_ai is
\* true and the search returned at least one match; a run that reaches the
\* gate with both true calls it; a report of a run that made no enhancement
\* call has enhanced_analysis null.
C4_EnhancementGate ==
    /\ CallsOf("enhance") # {} =>
          (request.enhance_with_ai /\ techniques_data # <<>>)
    /\ (pc = "done" /\ request.enhance_with_ai /\ techniques_data # <<>>)
          => CallsOf("enhance") # {}
    /\ (PastGate /\ request.enhance_with_ai /\ techniques_data # <<>>)
          => (pc \in {"enhance", "enhance_v2"} \/ CallsOf("enhance") # {})
    /\ (PastGate /\ ~(request.enhance_with_ai /\ techniques_data # <<>>))
          => (pc \notin {"enhance", "enhance_v2"}
              /\ enhanced_analysis = None)
    /\ (response # None /\ CallsOf("enhance") = {})
          => response[1].enhanced_analysis = None

C4_Witness ==
    /\ pc = "done"
    /\ response # None
    /\ CallsOf("enhance") # {}
    /\ request.enhance_with_ai
    /\ Len(techniques_data) >= 1

ClampDistance(d) == Max(0, Min(d, 2 * DistOne))

ChromaAnswered ==
    s_op = "chroma" /\ ~s_backend.raised /\ s_backend.has_distances

\* C5: search_techniques gives the hit at distance d the relevance
\* 1 - clamp(d, 0, 2)/2: within [0,1] for d in [0,2], 1.0 at d = 0, 0.0 at
\* d = 2, strictly decreasing in d on [0,2], 1.0 below 0 and 0.0 above 2.
C5_RelevanceNormalization ==
    ChromaAnswered =>
        /\ Len(s_out.techniques) = Len(s_backend.hits)
        /\ \A i \in 1..Len(s_backend.hits) :
              LET d == s_backend.hits[i].distance
                  r == s_out.techniques[i].relevance_score
              IN  /\ 2 * DistOne * r
                        = ScoreOne * (2 * DistOne - ClampDistance(d))
                  /\ (d >= 0 /\ d <= 2 * DistOne)
                        => (r >= 0 /\ r <= ScoreOne)
                  /\ d = 0 => r = ScoreOne
                  /\ d = 2 * DistOne => r = 0
                  /\ d < 0 => r = ScoreOne
                  /\ d > 2 * DistOne => r = 0
                  /\ \A j \in 1..Len(s_backend.hits) :
                        LET dj == s_backend.hits[j].distance IN
                        (d >= 0 /\ d < dj /\ dj <= 2 * DistOne)
                            => r > s_out.techniques[j].relevance_score

C5_Witness ==
    /\ ChromaAnswered
    /\ \E i, j, k \in 1..Len(s_backend.hits) :
          /\ s_backend.hits[i].distance < 0
          /\ s_backend.hits[j].distance > 0
          /\ s_backend.hits[j].distance < 2 * DistOne
          /\ s_backend.hits[k].distance > 2 * DistOne
          /\ s_out.techniques[j].relevance_score > 0
          /\ s_out.techniques[j].relevance_score < ScoreOne

\* the ids and scores the backend reported to the last search call
BackendIdScores ==
    IF s_op = "chroma" /\ ~s_backend.raised
    THEN {<<s_backend.hits[i].technique_id,
            NormalizeDistance(s_backend.has_distances,
                              s_backend.hits[i].distance)>> :
              i \in 1..Len(s_backend.hits)}
    ELSE IF s_op = "bedrock" /\ ~s_backend.raised
    THEN {<<s_backend.chunks[i].technique_id, s_backend.chunks[i].score>> :
              i \in {k \in 1..Len(s_backend.chunks) :
                        /\ s_backend.chunks[k].score >= MinChunkScore
                        /\ s_backend.chunks[k].technique_id # UnknownId}}
    ELSE {}

\* C6: the result of search_techniques and of retrieve_and_summarize holds
\* no technique id twice, and the entry kept for an id is the best-scoring
\* hit the backend reported for it.
C6_DedupByTechniqueId ==
    s_op \in {"chroma", "bedrock"} =>
        /\ \A i, j \in 1..Len(s_out.techniques) :
              i # j => s_out.techniques[i].technique_id
                          # s_out.techniques[j].technique_id
        /\ \A i \in 1..Len(s_out.techniques) :
              \A p \in BackendIdScores :
                  p[1] = s_out.techniques[i].technique_id
                      => s_out.techniques[i].relevance_score >= p[2]
        /\ \A p \in BackendIdScores :
              \E i \in 1..Len(s_out.techniques) :
                  s_out.techniques[i].technique_id = p[1]

\* C7: every technique list a search path returns, and the
\* matched_techniques of every report, is in descending order of
\* relevance_score (the index reports its hits nearest first).
C7_ReportOrdering ==
    /\ IsSortedDesc(s_out.techniques)
    /\ IsSortedDesc(techniques_data)
    /\ response # None => IsSortedDesc(response[1].matched_techniques)

C7_Witness ==
    /\ response # None
    /\ Len(response[1].matched_techniques) >= 2
    /\ response[1].matched_techniques[1].relevance_score
          > response[1].matched_techniques[2].relevance_score

\* C8: every relevance_score a search path puts in its technique list lies
\* in [0,1], whatever distance or score the backend reported.
C8_ScoresClamped ==
    \A i \in 1..Len(s_out.techniques) :
        /\ s_out.techniques[i].relevance_score >= 0
        /\ s_out.techniques[i].relevance_score <= ScoreOne

\* C9: when the index query or the embedding call of a technique search
\* raises, search_techniques and search_mitre_techniques return [] without
\* raising, and an analysis.py run whose search failed goes on to a report
\* with no match.
C9_SearchFailureGivesEmpty ==
    /\ s_op \in {"chroma", "aws"} =>
          /\ ~s_out.raised
          /\ (s_backend.raised \/ s_backend.query_embedding = "zero_vector")
                => s_out.techniques = <<>>
    /\ request.route = "v1" =>
          \A i \in CallsOf("search") :
              calls[i].failed =>
                  /\ pc \in {"store", "done"}
                  /\ techniques_data = <<>>
                  /\ pc = "done" =>
                        /\ response # None
                        /\ response[1].matched_techniques = <<>>

\* the corpus file is unreadable or holds no attack-pattern
CorpusUnavailable == ~corpus_ok \/ corpus = <<>>

\* C10: with the corpus unreadable or empty, startup completes, every
\* search_techniques call returns [] without raising, and an analysis.py run
\* whose summarization succeeded returns a report with that summary and no
\* matched technique.
C10_EmptyCorpusDegrades ==
    CorpusUnavailable =>
        /\ server # "failed"
        /\ collection = {}
        /\ s_op = "chroma" => (~s_out.raised /\ s_out.techniques = <<>>)
        /\ request.route = "v1" =>
              /\ techniques_data = <<>>
              /\ (\E i \in CallsOf("summarize") : ValidSummaryCall(calls[i]))
                    => /\ pc # "failed"
                       /\ http_error = None
              /\ pc = "done" =>
                    /\ response # None
                    /\ response[1].matched_techniques = <<>>
                    /\ response[1].summary # <<>>
                    /\ \A i \in CallsOf("summarize") :
                          ValidSummaryCall(calls[i]) =>
                              response[1].summary = Strip(calls[i].text)

C10_Witness ==
    /\ CorpusUnavailable
    /\ server = "up"
    /\ request.route = "v1"
    /\ pc = "done"
    /\ response # None
    /\ \E i \in CallsOf("summarize") : ValidSummaryCall(calls[i])
    /\ \E i \in CallsOf("search") : TRUE

\* ------------------------------------------------------------------- C11
Matches(ioc_type, text) ==
    {FindAll(ioc_type, text)[i] : i \in 1..Len(FindAll(ioc_type, text))}

MatchedValues(text) ==
    UNION {Matches(IocTypes[k], text) : k \in 1..Len(IocTypes)}

FirstMatchingType(value, text) ==
    IocTypes[CHOOSE k \in 1..Len(IocTypes) :
                /\ value \in Matches(IocTypes[k], text)
                /\ \A j \in 1..(k - 1) : value \notin Matches(IocTypes[j], text)]

\* C11: extract_iocs returns every matched literal value exactly once,
\* however often it occurs in the text, and gives it the type of the first
\* class, in the order ipv4, domain, url, md5, sha256, that matches it.
C11_EachValueOnce ==
    ioc_op = "extract_iocs" =>
        /\ \A i, j \in 1..Len(found_iocs) :
              i # j => found_iocs[i].value # found_iocs[j].value
        /\ {found_iocs[i].value : i \in 1..Len(found_iocs)}
              = MatchedValues(log_message)
        /\ \A i \in 1..Len(found_iocs) :
              found_iocs[i].type
                 = FirstMatchingType(found_iocs[i].value, log_message)

\* the text names one value twice, and the value is reported
C11_Witness ==
    /\ ioc_op = "extract_iocs"
    /\ \E k \in 1..Len(IocTypes) :
          LET m == FindAll(IocTypes[k], log_message) IN
          \E i, j \in 1..Len(m) :
             /\ i # j
             /\ m[i] = m[j]
             /\ \E n \in 1..Len(found_iocs) : found_iocs[n].value = m[i]

\* ------------------------------------------------------------------- C12
\* C12: the report returned for a request carries the indicators that
\* extract_iocs finds in the request's raw logs.
C12_ReportCarriesIocs ==
    (request.route = "v2" /\ response # None) =>
        /\ "extracted_iocs" \in DOMAIN response[1]
        /\ response[1].extracted_iocs = extract_iocs(request.logs)

\* ------------------------------------------------------------------- C13
\* C13: a cycle of monitor_logs moves the checkpoint (last_position and the
\* configured last_file_position) only when its analysis returned a result
\* and the result was stored; otherwise, also when the cycle is cancelled,
\* the checkpoint is the one the cycle started with.
C13_CheckpointAfterStorage ==
    cycle.branch = "analyze" =>
        \/ /\ last_position = cycle.checkpoint
           /\ config_position = cycle.checkpoint
        \/ /\ cycle.analysis = "result"
           /\ cycle.storage = "stored"

\* ------------------------------------------------------------------- C14
FileBranches == {"blank", "analyze", "rotated", "unchanged"}

\* C14: a cycle of monitor_logs reads the log from the checkpoint on, and a
\* cycle that finds the file smaller than the checkpoint sets the checkpoint
\* to 0, in the loop and in the configuration (and in the configuration
\* file, when it can be written), counts no error and does not end the loop.
C14_FromCheckpointAndRotation ==
    /\ cycle.branch \in FileBranches => cycle.from >= cycle.checkpoint
    /\ (cycle.branch \in FileBranches /\ cycle.size < cycle.checkpoint) =>
          /\ cycle.branch = "rotated"
          /\ last_position = 0
          /\ config_position = 0
          /\ cycle.written => saved_position = 0
          /\ consecutive_errors = cycle.errors
          /\ stop_reason \in {"none", "cancelled"}

\* a rotation was met after the checkpoint had advanced
C14_Witness ==
    /\ m_pc = "sleeping"
    /\ cycle.branch = "rotated"
    /\ cycle.checkpoint > 0
    /\ cycle.size < cycle.checkpoint

\* ------------------------------------------------------------------- C15
\* C15: once the consecutive-error counter of monitor_logs has reached
\* max_errors the loop has ended, whatever failed.
C15_StopsAtMaxErrors ==
    (m_mode = "file" /\ consecutive_errors >= MaxErrors) => m_pc = "ended"

\* ------------------------------------------------------------------- C16
\* C16: the sleep that follows the n-th consecutive failed cycle of
\* monitor_logs lasts min(base_interval * 2^(n-1), 300) seconds.
C16_BackoffSleep ==
    (m_mode = "file" /\ m_pc = "sleeping"
       /\ consecutive_errors > cycle.errors) =>
        sleep_time = Some(BackoffWait(base_interval, consecutive_errors))

\* ------------------------------------------------------------------- C17
\* C17: every sleep between two cycles of monitor_logs and of
\* start_dynamic_monitoring lasts at least 10 seconds.
C17_SleepFloor ==
    m_pc = "sleeping" => sleep_time[1] >= SleepFloor

\* ------------------------------------------------------------------- C18
\* what the last stop request did to the sessions
StopChangedOnlyActive ==
    sess_last.op = "stop" =>
        /\ \A id \in SessionIds :
              sessions[id] # sess_last.before[id] =>
                 /\ id = sess_last.session_id
                 /\ sess_last.before[id] = "active"
                 /\ sessions[id] = "stopped"
        /\ StatusOf(sess_last.before, sess_last.session_id) # "active" =>
              /\ ~sess_last.result
              /\ sess_last.http = 404
              /\ sessions = sess_last.before

StoppedStays ==
    \A id \in SessionIds : sessions[id] = "stopped" => sessions'[id] = "stopped"

\* C18: a stop request changes a session's status only from active to
\* stopped; for a session that is not active it answers 404 and changes
\* nothing; and a stopped session stays stopped whatever is requested next.
C18_StoppedIsTerminal == [](StopChangedOnlyActive) /\ [][StoppedStays]_vars

\* a stop request has come for a session that was stopped already
C18_Witness ==
    /\ sess_last.op = "stop"
    /\ StatusOf(sess_last.before, sess_last.session_id) = "stopped"
    /\ sess_last.http = 404

Unclamped ==
    /\ sched_bounds.lo * 4 <= sched_bounds.base
    /\ sched_bounds.base * 3 <= sched_bounds.hi * 2

StoreSize(store) == Cardinality(DOMAIN store)

C21_LoadIdempotent ==
    (init_call.op = "initialize" /\ init_call.before # {}) =>
        collection = init_call.before

\* ids of the techniques the file yields
SourceIds ==
    LET techniques == load_attack_data(stix_objects, stix_readable) IN
    {techniques[i].id : i \in DOMAIN techniques}

\* a second call has met the corpus loaded in full
C21_Witness ==
    /\ init_call.op = "initialize"
    /\ ~init_call.raised
    /\ init_call.before = SourceIds
    /\ Cardinality(init_call.before) > BatchSize
    /\ collection = init_call.before

\* ------------------------------------------------------------------- C22
\* C22: a load of a readable file returns every well-formed technique of
\* the file, whatever malformed records stand next to it.
C22_SkipsMalformed ==
    (init_call.op = "initialize" /\ init_call.loaded # None
        /\ stix_readable) =>
        \A i \in DOMAIN stix_objects :
            stix_objects[i] = WellFormed => i \in init_call.loaded[1]

\* ------------------------------------------------------------------- C30
\* C30: once an initialize_database call over a non-empty source corpus
\* has completed without a backend error, the collection holds the whole
\* corpus.
C30_AllOrNothing ==
    (init_call.op = "initialize" /\ ~init_call.raised
        /\ SourceIds # {}) =>
        SourceIds \subseteq collection

\* ------------------------------------------------------------------- C23
\* C23: search_mitre_techniques gives the hit at distance d the relevance
\* 1 - clamp(d, 0, 2)/2, the value search_techniques gives that distance.
C23_AwsScoresAsNormalized ==
    (s_op = "aws" /\ ~s_backend.raised /\ s_backend.has_distances) =>
        \A i \in 1..Len(s_backend.hits) :
            \E j \in 1..Len(s_out.techniques) :
                /\ s_out.techniques[j].document = s_backend.hits[i].entry
                /\ s_out.techniques[j].relevance_score
                      = NormalizeDistance(TRUE, s_backend.hits[i].distance)

\* ------------------------------------------------------------------- C24
\* C24: whenever an entry point queries the index it asks for a number k
\* of results with 1 <= k <= 20, and for 5 when the caller gave none.
C24_KWithinBounds ==
    entry_call.queried =>
        /\ entry_call.k # None
        /\ entry_call.k[1] >= 1
        /\ entry_call.k[1] <= MaxQueryResults
        /\ entry_call.input.kind = "omitted" =>
              entry_call.k[1] = DefaultMaxResults

\* ------------------------------------------------------------------- C25
\* C25: the process ends with exit code 1 when the command reported a
\* failure and with 0 otherwise.
C25_ExitCodeOnFailure ==
    cli_run.exit_code = (IF cli_run.mark = "failed" THEN 1 ELSE 0)

\* ------------------------------------------------------------------- C26
\* a cycle of monitor_logs ends with a result
CycleSucceeds ==
    /\ m_pc = "analyzing"
    /\ m_pc' = "sleeping"
    /\ cycle'.analysis = "result"

\* C26: the content of a successfully analysed cycle of monitor_logs begins
\* where the content the run has analysed before ends, or later: no byte of
\* the file is analysed twice, however the writer's appends fall between
\* the steps of the cycles.
C26_NoReprocessing == [][CycleSucceeds => cycle.from >= analysed_upto]_vars

\* ------------------------------------------------------------------- C27
\* C27: a run of monitor_logs that holds a monitoring session has sent one
\* stop request for it once its loop has ended, whatever ended the loop,
\* and none before; a run that got no session has ended without a cycle
\* and without a stop request.
C27_StopOnceAtEnd ==
    m_mode = "file" =>
        /\ (m_pc = "ended" /\ run_session_id # None) => stop_requests = 1
        /\ m_pc # "ended" => stop_requests = 0
        /\ (m_pc # "idle" /\ run_session_id = None) =>
              /\ m_pc = "ended"
              /\ stop_reason \in {"no_log_file", "no_session"}
              /\ cycle = NoCycle
              /\ stop_requests = 0

\* the loop of a run with a session has ended on the error limit
C27_Witness ==
    /\ m_mode = "file"
    /\ m_pc = "ended"
    /\ stop_reason = "too_many_errors"
    /\ run_session_id # None
    /\ stop_requests = 1

\* ------------------------------------------------------------------- C28
\* the call found a cache file of its log content less than an hour old
FreshlyCached ==
    /\ retry.entry # None
    /\ retry.readable
    /\ retry.called_at - retry.entry[1].timestamp < CacheTtl

RetrySends == {i \in 1..Len(retry.events) : retry.events[i].kind = "send"}

\* C28: a call of send_logs_with_retry that finds a result cached for its
\* log content less than an hour ago returns it and sends nothing; any other
\* call sends at most max_retries times, attempt after attempt, sends
\* nothing after a result, sleeps 2^attempt seconds after a failed attempt
\* only when another attempt follows, and returns None exactly when no
\* attempt gave a result, after max_retries attempts.
C28_CacheThenBoundedRetries ==
    retry.pc # "idle" =>
        LET evs == retry.events IN
        IF FreshlyCached
        THEN /\ retry.pc = "done"
             /\ evs = <<>>
             /\ retry.returned = Some(retry.entry[1].result)
        ELSE /\ Cardinality(RetrySends) <= retry.max_retries
             /\ \A i \in RetrySends :
                   /\ evs[i].attempt =
                         Cardinality({j \in RetrySends : j < i})
                   /\ evs[i].result => i = Len(evs)
             /\ \A i \in (1..Len(evs)) \ RetrySends :
                   /\ i > 1
                   /\ evs[i - 1].kind = "send"
                   /\ ~evs[i - 1].result
                   /\ evs[i].seconds = 2 ^ evs[i - 1].attempt
                   /\ \/ i < Len(evs) /\ evs[i + 1].kind = "send"
                      \/ /\ i = Len(evs)
                         /\ retry.pc \in {"sleeping", "attempt"}
                         /\ evs[i - 1].attempt + 1 < retry.max_retries
             /\ retry.pc = "done" =>
                   /\ evs = <<>> \/ evs[Len(evs)].kind = "send"
                   /\ (retry.returned = None) <=>
                         (\A i \in RetrySends : ~evs[i].result)
                   /\ retry.returned = None =>
                         Cardinality(RetrySends) = retry.max_retries
                   /\ retry.returned # None =>
                         retry.returned[1].logs = retry.log_content

\* every attempt of a call that met no fresh cache file has failed, with
\* a sleep between each two
C28_Witness ==
    /\ retry.pc = "done"
    /\ ~FreshlyCached
    /\ retry.entry # None
    /\ retry.max_retries >= 2
    /\ retry.returned = None
    /\ Len(retry.events) = 2 * retry.max_retries - 1

\* ------------------------------------------------------------------- C29
\* the last request named a session that existed and came from a user who
\* did not create it
ByAnotherUser ==
    /\ sess_last.op \in {"get", "stop"}
    /\ StatusOf(sess_last.before, sess_last.session_id) # "absent"
    /\ OwnerOf(session_owner, sess_last.session_id) # sess_last.user

\* C29: a request for a session by a user who did not create it is refused:
\* the read is answered 403, and the stop leaves the session's status as it
\* was and does not report success.
C29_OwnerOnly ==
    ByAnotherUser =>
        /\ sess_last.op = "get" => sess_last.http = 403
        /\ sess_last.op = "stop" =>
              /\ sessions[sess_last.session_id] =
                    sess_last.before[sess_last.session_id]
              /\ ~sess_last.result

====
